---------------------------- MODULE Spec2Model ----------------------------
(***************************************************************************)
(* Session lifecycle engine of the irmago server: the session state        *)
(* machine (helpers.go), the local and the remote session store            *)
(* (sessions.go), the middleware chain (helpers.go) and the protocol       *)
(* version negotiator (helpers.go, messages.go).                           *)
(*                                                                         *)
(* Three specifications share the module:                                  *)
(*   SpecNeg    the negotiator as a pure function over bounded inputs      *)
(*   Spec       the lifecycle of one session in the local (memory) store:  *)
(*              whole transactions, the expiry sweep, the clock            *)
(*   SpecStores two concurrent request handlers on one session, step by    *)
(*              step, in the local store (with the sweep) or in the remote *)
(*              (Redis) store (with the lock's time to live)               *)
(***************************************************************************)
EXTENDS Integers, Sequences, FiniteSets, TLC

VARIABLES
    \* configuration declared outside the translated sources
    AcceptInsecureProtocolVersions, \* helpers.go:100 (package-level flag)
    minSecureProtocolVersion,       \* helpers.go:99  (package-level version)
    \* negotiator harness
    negIn,          \* the inputs of one chooseProtocolVersion call
    negOut,         \* <<>> before the call, <<its result>> after it
    \* wall clock
    now,            \* time.Now(), in seconds
    nticks,         \* how many times the clock has advanced
    \* local (memory) store
    objs,           \* the session objects on the heap: id -> session
    requestor,      \* memorySessionStore.requestor: RequestorToken -> id
    client,         \* memorySessionStore.client: ClientToken -> id
    mutex,          \* session.Mutex: id -> its holder, Free when unlocked
    \* request handlers
    pc,             \* handler -> its position in the transaction
    req,            \* handler -> the request it serves
    ref,            \* handler -> the session it works on
    resp,           \* handler -> the response it has written
    \* expiry sweep (memorySessionStore.deleteExpired)
    spc,            \* position of the sweep
    toCheck,        \* requestor tokens still to visit in this pass
    cur,            \* requestor token of the session the sweep has locked
    expired,        \* requestor tokens marked for deletion in this pass
    \* which store the server runs on, "memory" or "redis"
    storeType,
    \* remote (Redis) store
    created,        \* id -> whether newSession has run for it
    rtoken,         \* keys token:<RequestorToken> -> [val: ClientToken, exp]
    rsession,       \* keys session:<ClientToken> -> [val: sessionData, exp]
    rlock,          \* keys lock:<ClientToken>: id -> holder, Free when absent
    loc,            \* handler -> <<the session it unmarshalled>>, <<>> if none
    \* history of the transactions, for the claims about the response cache
    hist,           \* the last request served, when, and whether it was replayed
    \* lifetime harness
    ttlIn,          \* the inputs of one call of timeout and ttl
    ttlOut,         \* <<>> before the call, <<its results>> after it
    \* getRequest harness
    stored,         \* session.Rrequest.SessionRequest(): the address of the request
    heap,           \* the objects a request is made of: address -> object
    returned        \* the addresses getRequest has returned, call after call

negVars == <<negIn, negOut>>
confVars == <<AcceptInsecureProtocolVersions, minSecureProtocolVersion>>
timeVars == <<now, nticks>>
memVars == <<objs, requestor, client, mutex>>
handlerVars == <<pc, req, ref, resp>>
sweepVars == <<spc, toCheck, cur, expired>>
redisVars == <<created, rtoken, rsession, rlock, loc>>
ttlVars == <<ttlIn, ttlOut>>
getVars == <<stored, heap, returned>>
auxVars == <<hist, ttlVars, getVars>>

-----------------------------------------------------------------------------
(* Protocol versions: messages.go *)

\* Bounds of the version space the negotiator is explored over.
MaxMajor == 3
MaxMinor == 9

NewVersion(major, minor) == [Major |-> major, Minor |-> minor]

Versions == {NewVersion(ma, mi) : ma \in 1..MaxMajor, mi \in 0..MaxMinor}

\* mutant: the minor comparison is not strict
BelowLoose(v, major, minor) ==
    IF v.Major < major THEN TRUE
    ELSE v.Major = major /\ v.Minor <= minor

Below(v, major, minor) ==
    IF v.Major < major THEN TRUE
    ELSE v.Major = major /\ v.Minor < minor

BelowVersion(v, other) == Below(v, other.Major, other.Minor)

\* mutant: the major version is ignored
AboveMinorOnly(v, major, minor) == v.Minor > minor

Above(v, major, minor) ==
    IF v.Major > major THEN TRUE
    ELSE v.Major = major /\ v.Minor > minor

AboveVersion(v, other) == Above(v, other.Major, other.Minor)

minProtocolVersion == NewVersion(2, 4)
maxProtocolVersion == NewVersion(2, 8)

\* The values minSecureProtocolVersion may be declared with: a supported version.
SecureVersions ==
    {v \in Versions : ~BelowVersion(v, minProtocolVersion)
                      /\ ~AboveVersion(v, maxProtocolVersion)}

\* The configurations the server may run with.
InitConf ==
    /\ AcceptInsecureProtocolVersions \in BOOLEAN
    /\ minSecureProtocolVersion \in SecureVersions

-----------------------------------------------------------------------------
(* The negotiator: helpers.go chooseProtocolVersion *)

\* The nil *ProtocolVersion returned together with an error.
NoVersion == NewVersion(0, 0)

\* The (version, error) pair chooseProtocolVersion returns.
NegotiationFailed == [version |-> NoVersion, err |-> TRUE]

Negotiated(v) == [version |-> v, err |-> FALSE]

\* The request features chooseProtocolVersion reads from the session.
Features == [LegacyCompatible : BOOLEAN, Revocation : BOOLEAN, NextSession : BOOLEAN]

\* mutant: the revocation minimum is assigned after the chained-session minimum
minSessionProtocolVersionSwapped(f) ==
    IF ~AcceptInsecureProtocolVersions THEN minSecureProtocolVersion
    ELSE LET base == IF ~f.LegacyCompatible THEN NewVersion(2, 5) ELSE minProtocolVersion
             next == IF f.NextSession THEN NewVersion(2, 7) ELSE base
             rev  == IF f.Revocation THEN NewVersion(2, 6) ELSE next
         IN  rev

\* helpers.go:99-114: each feature overwrites the minimum set before it
minSessionProtocolVersion(f) ==
    IF ~AcceptInsecureProtocolVersions THEN minSecureProtocolVersion
    ELSE LET base == IF ~f.LegacyCompatible THEN NewVersion(2, 5) ELSE minProtocolVersion
             rev  == IF f.Revocation THEN NewVersion(2, 6) ELSE base
             next == IF f.NextSession THEN NewVersion(2, 7) ELSE rev
         IN  next

\* mutant: the client's maximum is returned without capping it at the server's
chooseProtocolVersionUncapped(f, minClient, maxClient) ==
    IF \/ AboveVersion(minClient, maxProtocolVersion)
       \/ BelowVersion(maxClient, minSessionProtocolVersion(f))
       \/ BelowVersion(maxClient, minClient)
    THEN NegotiationFailed
    ELSE Negotiated(maxClient)

\* helpers.go:116-125
chooseProtocolVersion(f, minClient, maxClient) ==
    IF \/ AboveVersion(minClient, maxProtocolVersion)
       \/ BelowVersion(maxClient, minSessionProtocolVersion(f))
       \/ BelowVersion(maxClient, minClient)
    THEN NegotiationFailed
    ELSE IF AboveVersion(maxClient, maxProtocolVersion)
         THEN Negotiated(maxProtocolVersion)
         ELSE Negotiated(maxClient)

-----------------------------------------------------------------------------
(* Session data and its helpers: sessions.go sessionData, helpers.go *)

ServerStatusInitialized == "INITIALIZED"
ServerStatusPairing     == "PAIRING"
ServerStatusConnected   == "CONNECTED"
ServerStatusCancelled   == "CANCELLED"
ServerStatusDone        == "DONE"
ServerStatusTimeout     == "TIMEOUT"

\* mutant: a timed out session does not count as finished
FinishedNoTimeout(status) ==
    status = ServerStatusDone \/ status = ServerStatusCancelled

Finished(status) ==
    status = ServerStatusDone \/ status = ServerStatusCancelled
        \/ status = ServerStatusTimeout

PairingMethodNone == "none"
PairingMethodPin  == "pin"

\* maxSessionLifetime and retryTimeLimit, in seconds
maxSessionLifetime == 300
retryTimeLimit == 10

SessionIds == {"s1"}

\* The sessions of SpecTokens, where two sessions share the store.
TokenSessionIds == {"s1", "s2"}
RequestorTokenOf(id) == "requestorToken-" \o id
ClientTokenOf(id) == "clientToken-" \o id
FrontendAuthOf(id) == "frontendAuth-" \o id

\* An HTTP response: its status code and its body.  The empty body has tag "".
NoOptions == [PairingMethod |-> "", PairingCode |-> ""]

Body(tag, version, withRequest, options) ==
    [tag |-> tag, version |-> version, withRequest |-> withRequest,
     options |-> options]

EmptyBody == Body("", NoVersion, FALSE, NoOptions)

Response(status, body) == [status |-> status, body |-> body]

NoResponse == Response(0, EmptyBody)

\* server.WriteError: an error envelope of the given kind
WriteError(kind) == Response(400, Body(kind, NoVersion, FALSE, NoOptions))

WriteJson(body) == Response(200, body)

EmptyCache ==
    [Endpoint |-> "", Message |-> "", Response |-> EmptyBody, Status |-> 0,
     SessionStatus |-> ""]

SessionResult(token, action, status, proofStatus, err) ==
    [Token |-> token, Type |-> action, Status |-> status,
     ProofStatus |-> proofStatus, Err |-> err]

\* sessions.go:335-355: the sessionData newSession builds
NewSessionData(id, action, request) ==
    [Action         |-> action,
     Rrequest       |-> request,
     LastActive     |-> now,
     RequestorToken |-> RequestorTokenOf(id),
     ClientToken    |-> ClientTokenOf(id),
     Status         |-> ServerStatusInitialized,
     Result         |-> SessionResult(RequestorTokenOf(id), action,
                                      ServerStatusInitialized, "", ""),
     Options        |-> [PairingMethod |-> PairingMethodNone, PairingCode |-> ""],
     FrontendAuth   |-> FrontendAuthOf(id),
     Version        |-> NoVersion,
     ClientAuth     |-> "",
     ResponseCache  |-> EmptyCache,
     \* not a field of sessionData: the result callbacks sent for the session
     callbacks      |-> <<>>]

markAlive(s) == [s EXCEPT !.LastActive = now]

\* mutant: the new status is not copied into the result
setStatusOnly(s, status) == [s EXCEPT !.Status = status]

\* The callback URLs of a requestor; the receiver at CallbackUp answers, the
\* one at CallbackDown cannot be reached.
CallbackUp == "https://requestor.example/up"
CallbackDown == "https://requestor.example/down"

\* server.DoResultCallback: the POST of the result to url, and how it went
\* (a failure is logged, nothing is returned)
DoResultCallback(url, result) ==
    [url |-> url, result |-> result, delivered |-> url = CallbackUp]

\* mutant: the callback is sent whether the requestor gave a CallbackURL or not
doResultCallbackAlways(s) ==
    [s EXCEPT !.callbacks =
        Append(@, DoResultCallback(s.Rrequest.CallbackURL, s.Result))]

\* helpers.go:52-62
doResultCallback(s) ==
    IF s.Rrequest.CallbackURL = "" THEN s
    ELSE [s EXCEPT !.callbacks =
             Append(@, DoResultCallback(s.Rrequest.CallbackURL, s.Result))]

\* helpers.go:38-50
setStatus(s, status) ==
    LET set == [s EXCEPT !.Status = status, !.Result.Status = status]
    IN  IF Finished(status) THEN doResultCallback(set) ELSE set

\* common.NewPairingCode: a random code, one of these
PairingCodes == {"pairingCode-1", "pairingCode-2"}

\* mutant: the options are updated whatever the status of the session
updateFrontendOptionsAnyStatus(s, pairingMethod, NewPairingCode) ==
    IF pairingMethod = "" THEN [s |-> s, err |-> FALSE]
    ELSE IF pairingMethod = PairingMethodNone
         THEN [s |-> [s EXCEPT !.Options = [PairingMethod |-> pairingMethod,
                                            PairingCode |-> ""]],
               err |-> FALSE]
    ELSE IF pairingMethod = PairingMethodPin
         THEN [s |-> [s EXCEPT !.Options = [PairingMethod |-> pairingMethod,
                                            PairingCode |-> NewPairingCode]],
               err |-> FALSE]
    ELSE [s |-> s, err |-> TRUE]

\* helpers.go:65-80; err is the returned error, NewPairingCode the code
\* common.NewPairingCode() returns when it is called
updateFrontendOptions(s, pairingMethod, NewPairingCode) ==
    IF s.Status # ServerStatusInitialized THEN [s |-> s, err |-> TRUE]
    ELSE IF pairingMethod = "" THEN [s |-> s, err |-> FALSE]
    ELSE IF pairingMethod = PairingMethodNone
         THEN [s |-> [s EXCEPT !.Options = [PairingMethod |-> pairingMethod,
                                            PairingCode |-> ""]],
               err |-> FALSE]
    ELSE IF pairingMethod = PairingMethodPin
         THEN [s |-> [s EXCEPT !.Options = [PairingMethod |-> pairingMethod,
                                            PairingCode |-> NewPairingCode]],
               err |-> FALSE]
    ELSE [s |-> s, err |-> TRUE]

\* mutant: pairing is completed whatever the status
pairingCompletedAlways(s) ==
    [s |-> setStatus(s, ServerStatusConnected), err |-> FALSE]

\* helpers.go:83-89
pairingCompleted(s) ==
    IF s.Status = ServerStatusPairing
    THEN [s |-> setStatus(s, ServerStatusConnected), err |-> FALSE]
    ELSE [s |-> s, err |-> TRUE]

\* mutant: the session is left in its status
failKeepsStatus(s, err) ==
    [s EXCEPT !.Result = SessionResult(s.RequestorToken, s.Action,
                                       ServerStatusCancelled, "", err)]

\* helpers.go:91-96
fail(s, err) ==
    setStatus([s EXCEPT !.Result = SessionResult(s.RequestorToken, s.Action,
                                                 ServerStatusCancelled, "", err)],
              ServerStatusCancelled)

\* crypto/sha256.Sum256: a digest, equal for equal messages only
Sum256(message) == <<"sha256", message>>

\* mutant: the status recorded with the entry is not compared
checkCacheAnyStatus(s, endpoint, message) ==
    IF \/ s.ResponseCache.Endpoint # endpoint
       \/ s.ResponseCache.Response = EmptyBody
       \/ s.LastActive < now - retryTimeLimit
       \/ Sum256(s.ResponseCache.Message) # Sum256(message)
    THEN [s |-> [s EXCEPT !.ResponseCache = EmptyCache], status |-> 0,
          response |-> EmptyBody]
    ELSE [s |-> s, status |-> s.ResponseCache.Status,
          response |-> s.ResponseCache.Response]

\* helpers.go:136-146; status 0 and the empty body stand for (0, nil)
checkCache(s, endpoint, message) ==
    IF \/ s.ResponseCache.Endpoint # endpoint
       \/ s.ResponseCache.Response = EmptyBody
       \/ s.ResponseCache.SessionStatus # s.Status
       \/ s.LastActive < now - retryTimeLimit
       \/ Sum256(s.ResponseCache.Message) # Sum256(message)
    THEN [s |-> [s EXCEPT !.ResponseCache = EmptyCache], status |-> 0,
          response |-> EmptyBody]
    ELSE [s |-> s, status |-> s.ResponseCache.Status,
          response |-> s.ResponseCache.Response]

\* server.Configuration as timeout and ttl read it, both fields in minutes
Configuration(maxLifetime, resultLifetime) ==
    [MaxSessionLifetime |-> maxLifetime, SessionResultLifetime |-> resultLifetime]

\* helpers.go:354-362, in seconds; time.Since(LastActive) is now - LastActive
timeout(s, conf) ==
    LET maxSessionDuration ==
            IF s.Status = ServerStatusInitialized /\ s.Rrequest.ClientTimeout # 0
            THEN s.Rrequest.ClientTimeout
            ELSE IF Finished(s.Status) THEN 0
            ELSE conf.MaxSessionLifetime * 60
    IN  maxSessionDuration - (now - s.LastActive)

\* mutant: the result lifetime is added for finished sessions only
ttlFinishedOnly(s, conf) ==
    IF Finished(s.Status) THEN timeout(s, conf) + conf.SessionResultLifetime * 60
    ELSE timeout(s, conf)

\* helpers.go:364-366, in seconds
ttl(s, conf) == timeout(s, conf) + conf.SessionResultLifetime * 60

\* helpers.go:309-324: the request is included only without pairing
getClientRequest(s) ==
    Body("clientSessionRequest", s.Version,
         s.Options.PairingMethod = PairingMethodNone, s.Options)

-----------------------------------------------------------------------------
(* Requests, middleware chain (helpers.go) and endpoint handlers *)

\* A request as the chain reads it; random is what the random source of the
\* server (common.NewPairingCode) yields while the request is served.
Request(kind, message, minClient, maxClient, auth, host, random) ==
    [kind |-> kind, message |-> message, minClient |-> minClient,
     maxClient |-> maxClient, auth |-> auth, host |-> host, random |-> random]

NoRequest == Request("none", "", NoVersion, NoVersion, "", "", "")

\* GET /irma/session/{clientToken}: the client fetches the session request
FetchRequest(minClient, maxClient, auth) ==
    Request("fetch", "", minClient, maxClient, auth, "server", "")

\* POST /irma/session/{clientToken}/proofs: the client's response
ProofsRequest(message, auth) ==
    Request("proofs", message, NoVersion, NoVersion, auth, "server", "")

\* GET /irma/session/{clientToken}/request: the client asks for the request
RequestRequest(auth) ==
    Request("request", "", NoVersion, NoVersion, auth, "server", "")

\* POST /irma/session/{clientToken}/frontend/options
OptionsRequest(pairingMethod, auth, random) ==
    Request("options", pairingMethod, NoVersion, NoVersion, auth, "server", random)

\* POST /irma/session/{clientToken}/frontend/pairingcompleted
PairingCompletedRequest(auth) ==
    Request("pairingcompleted", "", NoVersion, NoVersion, auth, "server", "")

\* r.URL.Path below the session's route
Path(r) ==
    CASE r.kind = "fetch" -> "/"
      [] r.kind = "proofs" -> "/proofs"
      [] r.kind = "request" -> "/request"
      [] r.kind = "options" -> "/frontend/options"
      [] r.kind = "pairingcompleted" -> "/frontend/pairingcompleted"
      [] OTHER -> ""

\* What a handler or middleware leaves behind: the session and the response.
Outcome(s, response) == [s |-> s, resp |-> response]

\* On client fetch (spec 4.6): only an INITIALIZED session is fetched; the
\* version window is negotiated, failure is fatal; on success the version and
\* the client's authorization are recorded and the session becomes PAIRING
\* when pairing is enabled and CONNECTED otherwise.
handleSessionGet(s, r) ==
    IF s.Status # ServerStatusInitialized
    THEN Outcome(s, WriteError("unexpectedRequest"))
    ELSE LET alive == markAlive(s)
             v == chooseProtocolVersion(s.Rrequest.f, r.minClient, r.maxClient)
         IN  IF v.err
             THEN Outcome(fail(alive, "protocolVersionNotSupported"),
                          WriteError("protocolVersionNotSupported"))
             ELSE LET set == [alive EXCEPT !.Version = v.version,
                                           !.ClientAuth = r.auth]
                      to  == IF s.Options.PairingMethod # PairingMethodNone
                             THEN ServerStatusPairing
                             ELSE ServerStatusConnected
                      new == setStatus(set, to)
                  IN  Outcome(new, WriteJson(getClientRequest(new)))

\* On client response (spec 4.6): the proofs are verified by the crypto
\* collaborator (the message says how they verify); the result is filled in
\* and the session becomes DONE on success, CANCELLED on failure.
handleSessionProofs(s, r) ==
    LET alive == markAlive(s)
        valid == r.message = "validProofs"
        proofStatus == IF valid THEN "VALID" ELSE "INVALID"
        filled == [alive EXCEPT !.Result.ProofStatus = proofStatus]
        to == IF valid THEN ServerStatusDone ELSE ServerStatusCancelled
    IN  Outcome(setStatus(filled, to),
                WriteJson(Body(proofStatus, NoVersion, FALSE, NoOptions)))

\* The endpoint that returns the session request to the client (spec 4.5,
\* post-pairing endpoints): the payload, the session as it was.
handleSessionGetRequest(s, r) ==
    Outcome(s, WriteJson(Body("sessionRequest", NoVersion, TRUE, NoOptions)))

\* The endpoints behind the client authorization gate.
handleClient(s, r) ==
    IF r.kind = "request" THEN handleSessionGetRequest(s, r)
    ELSE handleSessionProofs(s, r)

\* Frontend options endpoint: updateFrontendOptions and its answer
handleFrontendOptions(s, r) ==
    LET u == updateFrontendOptions(s, r.message, r.random)
    IN  IF u.err
        THEN Outcome(u.s, WriteError("unexpectedRequest"))
        ELSE Outcome(u.s, WriteJson(Body("sessionOptions", NoVersion, FALSE,
                                         u.s.Options)))

\* Frontend pairingcompleted endpoint: pairingCompleted and its answer
handlePairingCompleted(s, r) ==
    LET u == pairingCompleted(s)
    IN  IF u.err
        THEN Outcome(u.s, WriteError("unexpectedRequest"))
        ELSE Outcome(u.s, WriteJson(Body("pairingCompleted", NoVersion, FALSE,
                                         NoOptions)))

\* mutant: a request without FrontendAuth is let through
frontendMiddlewareOpen(s, r) ==
    IF r.kind = "options" THEN handleFrontendOptions(s, r)
    ELSE handlePairingCompleted(s, r)

\* helpers.go:497-508
frontendMiddleware(s, r) ==
    IF r.auth # s.FrontendAuth
    THEN Outcome(s, WriteError("irmaUnauthorized"))
    ELSE IF r.kind = "options" THEN handleFrontendOptions(s, r)
         ELSE handlePairingCompleted(s, r)

\* mutant: the Authorization header is not compared with ClientAuth
pairingMiddlewareNoAuth(s, r) ==
    IF s.Status = ServerStatusPairing
    THEN Outcome(s, WriteError("pairingRequired"))
    ELSE IF s.Status # ServerStatusConnected
    THEN Outcome(s, WriteError("unexpectedRequest"))
    ELSE handleClient(s, r)

\* helpers.go:582-605
pairingMiddleware(s, r) ==
    IF s.Status = ServerStatusPairing
    THEN Outcome(s, WriteError("pairingRequired"))
    ELSE IF s.Status # ServerStatusConnected
    THEN Outcome(s, WriteError("unexpectedRequest"))
    ELSE IF s.ClientAuth # r.auth
    THEN Outcome(s, WriteError("irmaUnauthorized"))
    ELSE handleClient(s, r)

\* The route below the cache: the fetch endpoint, the endpoints behind the
\* client authorization gate and the frontend endpoints (spec 4.5).
Route(s, r) ==
    CASE r.kind = "fetch" -> handleSessionGet(s, r)
      [] r.kind \in {"proofs", "request"} -> pairingMiddleware(s, r)
      [] OTHER -> frontendMiddleware(s, r)

\* mutant: the entry records the status the session had before the chain ran
cacheMiddlewareStaleStatus(s, r) ==
    LET c == checkCache(s, Path(r), r.message)
    IN  IF c.status > 0 /\ c.response # EmptyBody
        THEN Outcome(c.s, Response(c.status, c.response))
        ELSE LET o == Route(c.s, r)
             IN  Outcome([o.s EXCEPT !.ResponseCache =
                              [Endpoint      |-> Path(r),
                               Message       |-> r.message,
                               Response      |-> o.resp.body,
                               Status        |-> o.resp.status,
                               SessionStatus |-> c.s.Status]],
                         o.resp)

\* helpers.go:510-544
cacheMiddleware(s, r) ==
    LET c == checkCache(s, Path(r), r.message)
    IN  IF c.status > 0 /\ c.response # EmptyBody
        THEN Outcome(c.s, Response(c.status, c.response))
        ELSE LET o == Route(c.s, r)
             IN  Outcome([o.s EXCEPT !.ResponseCache =
                              [Endpoint      |-> Path(r),
                               Message       |-> r.message,
                               Response      |-> o.resp.body,
                               Status        |-> o.resp.status,
                               SessionStatus |-> o.s.Status]],
                         o.resp)

\* mutant: the expected Host of the session is not looked at
sessionMiddlewareAnyHost(s, r) == cacheMiddleware(s, r)

\* helpers.go:555-570: the function sessionMiddleware runs in the transaction
sessionMiddleware(s, r) ==
    IF s.Rrequest.Host # "" /\ s.Rrequest.Host # r.host
    THEN Outcome(s, WriteError("unauthorized"))
    ELSE cacheMiddleware(s, r)

-----------------------------------------------------------------------------
(* The local store (sessions.go memorySessionStore) and its transactions *)

Free == "free"
Handlers == {"h1", "h2"}

\* Bound on the number of clock advances; the steps the clock advances by:
\* within the retry limit, past a ClientTimeout of 60 s, past maxSessionLifetime.
MaxTicks == 2
Deltas == {5, 61, 301}

\* The one step Spec and SpecStores advance the clock by.
StoreDeltas == {301}

\* The requestor requests sessions are started with: the features the
\* negotiator reads, Base().ClientTimeout (seconds) and Base().Host.
PlainFeatures == [LegacyCompatible |-> TRUE, Revocation |-> FALSE, NextSession |-> FALSE]
RevocationFeatures == [LegacyCompatible |-> TRUE, Revocation |-> TRUE, NextSession |-> FALSE]
SessionRequests ==
    [f : {PlainFeatures, RevocationFeatures}, ClientTimeout : {0}, Host : {""}, CallbackURL : {""}]

\* The requests clients and frontends send.
ClientWindows ==
    {<<NewVersion(1, 0), NewVersion(1, 3)>>, <<NewVersion(2, 5), NewVersion(2, 5)>>,
     <<NewVersion(2, 4), NewVersion(2, 7)>>, <<NewVersion(2, 4), NewVersion(2, 9)>>}
Requests ==
    {FetchRequest(w[1], w[2], "clientAuth") : w \in ClientWindows}
    \cup {ProofsRequest(m, a) : m \in {"validProofs", "invalidProofs"},
                                a \in {"clientAuth", "wrongAuth"}}
    \cup {OptionsRequest(m, FrontendAuthOf("s1"), "") : m \in {"", "none", "unknown"}}
    \cup {OptionsRequest("pin", FrontendAuthOf("s1"), "pairingCode-1")}
    \cup {PairingCompletedRequest(a) : a \in {FrontendAuthOf("s1"), "wrongAuth"}}

\* sessions.go:117-127: nil when the token is not in the index
Known(index, token) == token \in DOMAIN index

\* mutant: the mutex is taken although it is held
memTryLockBarging(id) == TRUE

\* sessions.go:141-146, 178: session.Lock() returns once the mutex is free
memTryLock(id) == mutex[id] = Free

\* mutant: the session is entered in the requestor index only
memAddRequestorOnly(id) ==
    /\ requestor' = [t \in DOMAIN requestor \cup {RequestorTokenOf(id)} |->
                        IF t = RequestorTokenOf(id) THEN id ELSE requestor[t]]
    /\ client' = client

\* sessions.go:117-127: what get and clientGet of the local store return,
\* <<>> for nil
memGet(t) == IF Known(requestor, t) THEN <<requestor[t]>> ELSE <<>>

memClientGet(t) == IF Known(client, t) THEN <<client[t]>> ELSE <<>>

\* sessions.go:129-135
memAdd(id) ==
    /\ requestor' = [t \in DOMAIN requestor \cup {RequestorTokenOf(id)} |->
                        IF t = RequestorTokenOf(id) THEN id ELSE requestor[t]]
    /\ client' = [t \in DOMAIN client \cup {ClientTokenOf(id)} |->
                        IF t = ClientTokenOf(id) THEN id ELSE client[t]]

\* sessions.go:319-371: newSession up to the insertion, lock held
NewSessionAdd(id, action, request) ==
    /\ storeType = "memory"
    /\ id \notin DOMAIN objs
    /\ objs' = [i \in DOMAIN objs \cup {id} |->
                   IF i = id THEN NewSessionData(id, action, request) ELSE objs[i]]
    /\ mutex' = [mutex EXCEPT ![id] = "newSession"]
    /\ memAdd(id)
    /\ UNCHANGED <<storeType, redisVars, confVars, negVars, auxVars, timeVars, handlerVars, sweepVars>>

\* sessions.go:375-377: the deferred unlock as newSession returns
NewSessionReturn(id) ==
    /\ storeType = "memory"
    /\ mutex[id] = "newSession"
    /\ mutex' = [mutex EXCEPT ![id] = Free]
    /\ UNCHANGED <<storeType, redisVars, confVars, negVars, auxVars, timeVars, objs, requestor, client,
                   handlerVars, sweepVars>>

\* The transaction of sessionMiddleware (helpers.go:548-578) on the local
\* store: look the session up by its client token, ...
Begin(h, id, r) ==
    /\ storeType = "memory"
    /\ pc[h] = "idle"
    /\ req' = [req EXCEPT ![h] = r]
    /\ IF Known(client, ClientTokenOf(id))
       THEN /\ ref' = [ref EXCEPT ![h] = client[ClientTokenOf(id)]]
            /\ pc' = [pc EXCEPT ![h] = "lock"]
            /\ resp' = [resp EXCEPT ![h] = NoResponse]
       ELSE /\ ref' = [ref EXCEPT ![h] = ""]
            /\ pc' = [pc EXCEPT ![h] = "reply"]
            /\ resp' = [resp EXCEPT ![h] = WriteError("sessionUnknown")]
    /\ UNCHANGED <<storeType, redisVars, confVars, negVars, auxVars, timeVars, memVars, sweepVars>>

\* ... lock it (sessions.go:141-146), ...
Lock(h) ==
    /\ storeType = "memory"
    /\ pc[h] = "lock"
    /\ memTryLock(ref[h])
    /\ mutex' = [mutex EXCEPT ![ref[h]] = h]
    /\ pc' = [pc EXCEPT ![h] = "cs"]
    /\ UNCHANGED <<storeType, redisVars, confVars, negVars, auxVars, timeVars, objs, requestor, client,
                   req, ref, resp, sweepVars>>

\* ... run the chain on the shared session object (update is a no-op,
\* sessions.go:137-139), ...
Serve(h) ==
    /\ storeType = "memory"
    /\ pc[h] = "cs"
    /\ LET o == sessionMiddleware(objs[ref[h]], req[h])
       IN  /\ objs' = [objs EXCEPT ![ref[h]] = o.s]
           /\ resp' = [resp EXCEPT ![h] = o.resp]
    /\ pc' = [pc EXCEPT ![h] = "unlock"]
    /\ UNCHANGED <<storeType, redisVars, confVars, negVars, auxVars, timeVars, requestor, client, mutex,
                   req, ref, sweepVars>>

\* ... and unlock it (sessions.go:148-152).
Unlock(h) ==
    /\ storeType = "memory"
    /\ pc[h] = "unlock"
    /\ mutex' = [mutex EXCEPT ![ref[h]] = Free]
    /\ pc' = [pc EXCEPT ![h] = "idle"]
    /\ req' = [req EXCEPT ![h] = NoRequest]
    /\ ref' = [ref EXCEPT ![h] = ""]
    /\ resp' = [resp EXCEPT ![h] = NoResponse]
    /\ UNCHANGED <<storeType, redisVars, confVars, negVars, auxVars, timeVars, objs, requestor, client, sweepVars>>

\* helpers.go:572-577: the error answer of a failed transaction is sent
Reply(h) ==
    /\ pc[h] = "reply"
    /\ pc' = [pc EXCEPT ![h] = "idle"]
    /\ req' = [req EXCEPT ![h] = NoRequest]
    /\ resp' = [resp EXCEPT ![h] = NoResponse]
    /\ UNCHANGED <<storeType, redisVars, confVars, negVars, auxVars, timeVars, memVars, ref, sweepVars>>

-----------------------------------------------------------------------------
(* The expiry sweep: sessions.go:166-211 memorySessionStore.deleteExpired *)

\* mutant: the ClientTimeout of the request is ignored
sweepTimeoutIgnoresClient(s) == maxSessionLifetime

\* sessions.go:180-183
sweepTimeout(s) ==
    IF s.Status = ServerStatusInitialized /\ s.Rrequest.ClientTimeout # 0
    THEN s.Rrequest.ClientTimeout
    ELSE maxSessionLifetime

\* mutant: a finished session is timed out again
sweepVisitUnguarded(s) ==
    IF s.LastActive + sweepTimeout(s) < now
    THEN [s |-> setStatus(markAlive(s), ServerStatusTimeout), expired |-> FALSE]
    ELSE [s |-> s, expired |-> FALSE]

\* mutant: the pass that times a session out marks it for deletion as well
sweepVisitDeletesAtOnce(s) ==
    IF s.LastActive + sweepTimeout(s) < now
    THEN IF ~Finished(s.Status)
         THEN [s |-> setStatus(markAlive(s), ServerStatusTimeout), expired |-> TRUE]
         ELSE [s |-> s, expired |-> TRUE]
    ELSE [s |-> s, expired |-> FALSE]

\* sessions.go:185-194: what the sweep does with a session it has locked
sweepVisit(s) ==
    IF s.LastActive + sweepTimeout(s) < now
    THEN IF ~Finished(s.Status)
         THEN [s |-> setStatus(markAlive(s), ServerStatusTimeout), expired |-> FALSE]
         ELSE [s |-> s, expired |-> TRUE]
    ELSE [s |-> s, expired |-> FALSE]

\* sessions.go:169-176: snapshot of the requestor index
\* sessions.go:170-173: toCheck[token] is the pointer to the session object,
\* which the pass keeps when the token has left the index meanwhile
toCheckSession(t) == CHOOSE id \in TokenSessionIds : RequestorTokenOf(id) = t

SweepSnapshot ==
    /\ storeType = "memory"
    /\ spc = "idle"
    /\ toCheck' = DOMAIN requestor
    /\ expired' = {}
    /\ spc' = "loop"
    /\ UNCHANGED <<storeType, redisVars, confVars, negVars, auxVars, timeVars, memVars, handlerVars, cur>>

\* sessions.go:177-178
SweepLock ==
    /\ storeType = "memory"
    /\ spc = "loop"
    /\ \E t \in toCheck :
          /\ memTryLock(toCheckSession(t))
          /\ mutex' = [mutex EXCEPT ![toCheckSession(t)] = "sweep"]
          /\ cur' = t
    /\ spc' = "check"
    /\ UNCHANGED <<storeType, redisVars, confVars, negVars, auxVars, timeVars, objs, requestor, client,
                   handlerVars, toCheck, expired>>

\* sessions.go:180-194
SweepCheck ==
    /\ storeType = "memory"
    /\ spc = "check"
    /\ LET v == sweepVisit(objs[toCheckSession(cur)])
       IN  /\ objs' = [objs EXCEPT ![toCheckSession(cur)] = v.s]
           /\ expired' = IF v.expired THEN expired \cup {cur} ELSE expired
    /\ spc' = "unlock"
    /\ UNCHANGED <<storeType, redisVars, confVars, negVars, auxVars, timeVars, requestor, client, mutex,
                   handlerVars, toCheck, cur>>

\* sessions.go:195
SweepUnlock ==
    /\ storeType = "memory"
    /\ spc = "unlock"
    /\ mutex' = [mutex EXCEPT ![toCheckSession(cur)] = Free]
    /\ toCheck' = toCheck \ {cur}
    /\ cur' = ""
    /\ spc' = "loop"
    /\ UNCHANGED <<storeType, redisVars, confVars, negVars, auxVars, timeVars, objs, requestor, client,
                   handlerVars, expired>>

\* mutant: the sessions are deleted from the requestor index only
memDeleteRequestorOnly(gone) ==
    /\ requestor' = [t \in DOMAIN requestor \ gone |-> toCheckSession(t)]
    /\ client' = client

\* sessions.go:198-210: the tokens of the sessions in gone leave both indexes
memDelete(gone) ==
    /\ requestor' = [t \in DOMAIN requestor \ gone |-> toCheckSession(t)]
    /\ client' = [t \in DOMAIN client \ {objs[requestor[e]].ClientToken : e \in gone}
                    |-> client[t]]

\* sessions.go:198-210; a token of expired that is no longer in the requestor
\* index yields a nil session, whose field sse the loop reads (sessions.go:
\* 200-201): the pass panics there, the tokens before it in the slice deleted.
SweepDelete ==
    /\ storeType = "memory"
    /\ spc = "loop"
    /\ toCheck = {}
    /\ IF expired \subseteq DOMAIN requestor
       THEN /\ memDelete(expired)
            /\ expired' = {}
            /\ spc' = "idle"
       ELSE /\ \E done \in SUBSET (expired \cap DOMAIN requestor) : memDelete(done)
            /\ expired' = expired
            /\ spc' = "panic"
    /\ UNCHANGED <<storeType, redisVars, confVars, negVars, auxVars, timeVars, objs, mutex, handlerVars, toCheck, cur>>

\* time passes: the clock advances by whole seconds, longer than the lock
\* key's time to live (sessions.go:99 maxLockLifetime, 500 ms), so no lock
\* key of the remote store outlives a step of the clock
Tick(d) ==
    /\ nticks < MaxTicks
    /\ now' = now + d
    /\ nticks' = nticks + 1
    /\ rlock' = [id \in TokenSessionIds |-> Free]
    /\ hist' = [hist EXCEPT !.swept = FALSE]
    /\ UNCHANGED <<storeType, created, rtoken, rsession, loc, confVars, negVars, ttlVars, getVars,
                   memVars, handlerVars, sweepVars>>

-----------------------------------------------------------------------------
(* The remote store: sessions.go redisSessionStore *)

\* A key with a time to live is readable until its expiry time.
Live(keys, k) == k \in DOMAIN keys /\ now < keys[k].exp

SetKey(keys, k, val, expiration) ==
    [x \in DOMAIN keys \cup {k} |->
        IF x = k THEN [val |-> val, exp |-> now + expiration] ELSE keys[x]]

\* sessions.go:241-245: the expiry check on the session just read
redisExpiryCheck(s) ==
    IF s.LastActive + maxSessionLifetime < now /\ ~Finished(s.Status)
    THEN setStatus(markAlive(s), ServerStatusTimeout)
    ELSE s

\* sessions.go:225-248: what clientGet of the remote store returns, <<>> for nil
redisClientGet(t) ==
    IF Live(rsession, t) THEN <<redisExpiryCheck(rsession[t].val)>> ELSE <<>>

\* sessions.go:213-223: get looks the client token up and calls clientGet
redisGet(t) ==
    IF Live(rtoken, t) THEN redisClientGet(rtoken[t].val) ELSE <<>>

\* sessions.go:251-256: the time to live add gives both keys
redisTimeout(s) ==
    IF s.Status = ServerStatusInitialized /\ s.Rrequest.ClientTimeout # 0
    THEN s.Rrequest.ClientTimeout
    ELSE IF Finished(s.Status) THEN maxSessionLifetime
    ELSE 2 * maxSessionLifetime

\* sessions.go:250-273: both keys are set
redisAdd(s) ==
    /\ rtoken' = SetKey(rtoken, s.RequestorToken, s.ClientToken, redisTimeout(s))
    /\ rsession' = SetKey(rsession, s.ClientToken, s, redisTimeout(s))

\* mutant: the lock is obtained although another holder's lock has not expired
redisObtainableAlways(id) == TRUE

\* sessions.go:288 locker.Obtain: the lock key is set only if it does not exist
redisObtainable(id) == rlock[id] = Free

\* sessions.go:279-283 lock.TTL: zero unless the key still holds this lock
redisLockTTLPositive(id, who) == rlock[id] = who

\* sessions.go:319-371 on the remote store: lock the new session, add it
RNewSessionAdd(id, action, request) ==
    /\ storeType = "redis"
    /\ ~created[id]
    /\ redisObtainable(id)
    /\ created' = [created EXCEPT ![id] = TRUE]
    /\ rlock' = [rlock EXCEPT ![id] = "newSession"]
    /\ redisAdd(NewSessionData(id, action, request))
    /\ UNCHANGED <<confVars, negVars, auxVars, timeVars, storeType, memVars, handlerVars,
                   sweepVars, loc>>

\* sessions.go:375 and 300-308: the deferred unlock; Release deletes the key
\* only if it still holds this lock
RNewSessionReturn(id) ==
    /\ storeType = "redis"
    /\ created[id]
    /\ rlock[id] = "newSession"
    /\ rlock' = [rlock EXCEPT ![id] = Free]
    /\ UNCHANGED <<confVars, negVars, auxVars, timeVars, storeType, memVars, handlerVars,
                   sweepVars, created, rtoken, rsession, loc>>

\* The holder of a lock key that a call of newSession took and left behind
\* when it returned.
Returned == "returned"

\* sessions.go:369-373 when add fails (the first SET returns an error):
\* newSession returns the error before the unlock is deferred (line 375), and
\* the lock key stays until it expires
RNewSessionAddFails(id) ==
    /\ storeType = "redis"
    /\ ~created[id]
    /\ redisObtainable(id)
    /\ rlock' = [rlock EXCEPT ![id] = Returned]
    /\ UNCHANGED <<confVars, negVars, auxVars, timeVars, storeType, memVars, handlerVars,
                   sweepVars, created, rtoken, rsession, loc>>

\* sessions.go:369-377 when lock fails (Obtain returns an error): the error
\* is dropped (line 369), the session is added all the same, and the deferred
\* unlock, whose error is dropped too, has no lock to release
RNewSessionNoLock(id, action, request) ==
    /\ storeType = "redis"
    /\ ~created[id]
    /\ created' = [created EXCEPT ![id] = TRUE]
    /\ redisAdd(NewSessionData(id, action, request))
    /\ UNCHANGED <<confVars, negVars, auxVars, timeVars, storeType, memVars, handlerVars,
                   sweepVars, rlock, loc>>

\* The transaction of sessionMiddleware on the remote store (spec 4.2):
\* acquire the lock, load the session, run the chain, persist, release.
RBegin(h, id, r) ==
    /\ storeType = "redis"
    /\ pc[h] = "idle"
    /\ req' = [req EXCEPT ![h] = r]
    /\ ref' = [ref EXCEPT ![h] = id]
    /\ resp' = [resp EXCEPT ![h] = NoResponse]
    /\ pc' = [pc EXCEPT ![h] = "lock"]
    /\ UNCHANGED <<confVars, negVars, auxVars, timeVars, storeType, memVars, sweepVars, redisVars>>

\* sessions.go:287-298, lock obtained
RLock(h) ==
    /\ storeType = "redis"
    /\ pc[h] = "lock"
    /\ redisObtainable(ref[h])
    /\ rlock' = [rlock EXCEPT ![ref[h]] = h]
    /\ pc' = [pc EXCEPT ![h] = "load"]
    /\ UNCHANGED <<confVars, negVars, auxVars, timeVars, storeType, memVars, req, ref, resp,
                   sweepVars, created, rtoken, rsession, loc>>

\* sessions.go:289-290: ErrNotObtained once the retries are used up
RLockBusy(h) ==
    /\ storeType = "redis"
    /\ pc[h] = "lock"
    /\ ~redisObtainable(ref[h])
    /\ resp' = [resp EXCEPT ![h] = WriteError("internal")]
    /\ pc' = [pc EXCEPT ![h] = "reply"]
    /\ UNCHANGED <<confVars, negVars, auxVars, timeVars, storeType, memVars, req, ref,
                   sweepVars, redisVars>>

\* What server.DoResultCallback has sent once an operation of the remote
\* store has turned the copy before of a session into the copy after.
sentBy(before, after) ==
    [hist EXCEPT !.sent = @ + Len(after.callbacks) - Len(before.callbacks)]

\* sessions.go:213-248 get outside a transaction: the requestor reads the
\* session by its RequestorToken; the copy it gets is not written back
RGet(id) ==
    /\ storeType = "redis"
    /\ created[id]
    /\ Live(rtoken, RequestorTokenOf(id))
    /\ Live(rsession, rtoken[RequestorTokenOf(id)].val)
    /\ hist' = sentBy(rsession[rtoken[RequestorTokenOf(id)].val].val,
                      redisGet(RequestorTokenOf(id))[1])
    /\ UNCHANGED <<confVars, negVars, ttlVars, getVars, timeVars, storeType, memVars, handlerVars,
                   sweepVars, redisVars>>

\* sessions.go:225-248 clientGet: nil for a missing key, else the session
\* read from the key after the expiry check
RLoad(h) ==
    /\ storeType = "redis"
    /\ pc[h] = "load"
    /\ IF Live(rsession, ClientTokenOf(ref[h]))
       THEN /\ loc' = [loc EXCEPT ![h] =
                          <<redisExpiryCheck(rsession[ClientTokenOf(ref[h])].val)>>]
            /\ pc' = [pc EXCEPT ![h] = "cs"]
            /\ resp' = resp
            /\ hist' = sentBy(rsession[ClientTokenOf(ref[h])].val,
                              redisExpiryCheck(rsession[ClientTokenOf(ref[h])].val))
       ELSE /\ loc' = loc
            /\ pc' = [pc EXCEPT ![h] = "unlock"]
            /\ resp' = [resp EXCEPT ![h] = WriteError("sessionUnknown")]
            /\ hist' = hist
    /\ UNCHANGED <<confVars, negVars, ttlVars, getVars, timeVars, storeType, memVars, req, ref,
                   sweepVars, created, rtoken, rsession, rlock>>

\* helpers.go:555-570 on the handler's copy of the session
RServe(h) ==
    /\ storeType = "redis"
    /\ pc[h] = "cs"
    /\ LET o == sessionMiddleware(loc[h][1], req[h])
       IN  /\ loc' = [loc EXCEPT ![h] = <<o.s>>]
           /\ resp' = [resp EXCEPT ![h] = o.resp]
           /\ hist' = sentBy(loc[h][1], o.s)
    /\ pc' = [pc EXCEPT ![h] = "update"]
    /\ UNCHANGED <<confVars, negVars, ttlVars, getVars, timeVars, storeType, memVars, req, ref,
                   sweepVars, created, rtoken, rsession, rlock>>

\* sessions.go:275-283 update: the check that the lock is still valid
RUpdateCheck(h) ==
    /\ storeType = "redis"
    /\ pc[h] = "update"
    /\ pc' = [pc EXCEPT ![h] = IF redisLockTTLPositive(ref[h], h)
                               THEN "write" ELSE "unlock"]
    /\ UNCHANGED <<confVars, negVars, auxVars, timeVars, storeType, memVars, req, ref, resp,
                   sweepVars, redisVars>>

\* sessions.go:284 update: the write that follows the check
RWrite(h) ==
    /\ storeType = "redis"
    /\ pc[h] = "write"
    /\ redisAdd(loc[h][1])
    /\ pc' = [pc EXCEPT ![h] = "unlock"]
    /\ UNCHANGED <<confVars, negVars, auxVars, timeVars, storeType, memVars, req, ref, resp,
                   sweepVars, created, rlock, loc>>

\* sessions.go:300-308 unlock: Release deletes the key only if it still holds
\* this lock (ErrLockNotHeld otherwise)
RUnlock(h) ==
    /\ storeType = "redis"
    /\ pc[h] = "unlock"
    /\ rlock' = [rlock EXCEPT ![ref[h]] = IF @ = h THEN Free ELSE @]
    /\ pc' = [pc EXCEPT ![h] = "idle"]
    /\ req' = [req EXCEPT ![h] = NoRequest]
    /\ ref' = [ref EXCEPT ![h] = ""]
    /\ resp' = [resp EXCEPT ![h] = NoResponse]
    /\ loc' = [loc EXCEPT ![h] = <<>>]
    /\ UNCHANGED <<confVars, negVars, auxVars, timeVars, storeType, memVars, sweepVars,
                   created, rtoken, rsession>>

\* sessions.go:99 maxLockLifetime: the lock key deletes itself when its time
\* to live has elapsed, whatever its holder is doing
LockExpire(id) ==
    /\ storeType = "redis"
    /\ rlock[id] # Free
    /\ rlock' = [rlock EXCEPT ![id] = Free]
    /\ UNCHANGED <<confVars, negVars, auxVars, timeVars, storeType, memVars, handlerVars,
                   sweepVars, created, rtoken, rsession, loc>>

-----------------------------------------------------------------------------
(* Spec: one session in the local store *)

vars == <<confVars, negVars, timeVars, storeType, memVars, handlerVars, sweepVars,
          redisVars, auxVars>>

\* What the transactions and the sweep remember beside req, the last request
\* served: when it was served if the session was left alone since then (at,
\* -1 otherwise), when the cache entry the session holds was written
\* (cachedAt, -1 when there is no session) and whether a pass of the sweep
\* ran since the clock last advanced (swept).  This is the value before any
\* request was served.
NoHistory == [at |-> -1, cachedAt |-> -1, swept |-> FALSE, sent |-> 0]

\* The lifetime harness at rest.
NoLifetimeCall ==
    [s |-> [Status |-> ServerStatusInitialized, LastActive |-> 0,
            Rrequest |-> [ClientTimeout |-> 0]],
     conf |-> Configuration(0, 0)]

NoLifetime ==
    /\ ttlIn = NoLifetimeCall
    /\ ttlOut = <<>>

\* No request is under getRequest: the nil address, nothing on the heap.
NoGetRequest ==
    /\ stored = 0
    /\ heap = <<>>
    /\ returned = <<>>

\* No session, no request in flight, the sweep between two passes.
InitStore ==
    /\ now = 0
    /\ nticks = 0
    /\ objs = <<>>
    /\ requestor = <<>>
    /\ client = <<>>
    /\ mutex = [id \in TokenSessionIds |-> Free]
    /\ pc = [h \in Handlers |-> "idle"]
    /\ req = [h \in Handlers |-> NoRequest]
    /\ ref = [h \in Handlers |-> ""]
    /\ resp = [h \in Handlers |-> NoResponse]
    /\ spc = "idle"
    /\ toCheck = {}
    /\ cur = ""
    /\ expired = {}
    /\ created = [id \in TokenSessionIds |-> FALSE]
    /\ rtoken = <<>>
    /\ rsession = <<>>
    /\ rlock = [id \in TokenSessionIds |-> Free]
    /\ loc = [h \in Handlers |-> <<>>]
    /\ hist = NoHistory

NoNegotiation ==
    /\ negIn = [f |-> PlainFeatures, minClient |-> NoVersion, maxClient |-> NoVersion]
    /\ negOut = <<>>

\* Without AcceptInsecureProtocolVersions the lowest and the highest value of
\* minSecureProtocolVersion; with it the value is not read.
InitConfSession ==
    /\ InitConf
    /\ minSecureProtocolVersion \in {minProtocolVersion, maxProtocolVersion}
    /\ AcceptInsecureProtocolVersions => minSecureProtocolVersion = maxProtocolVersion

Init ==
    /\ InitConfSession
    /\ NoNegotiation
    /\ NoLifetime
    /\ NoGetRequest
    /\ storeType = "memory"
    /\ InitStore

\* helpers.go:512-516: the cached response is written when checkCache has one
Replays(s, r) ==
    LET c == checkCache(s, Path(r), r.message)
    IN  c.status > 0 /\ c.response # EmptyBody

\* The request went through sessionMiddleware (helpers.go:546-580) to the
\* session: the entry is written when cacheMiddleware runs the chain below it.
served(s, r) ==
    [hist EXCEPT
        !.at = now,
        !.cachedAt = IF (s.Rrequest.Host # "" /\ s.Rrequest.Host # r.host)
                        \/ Replays(s, r)
                     THEN hist.cachedAt
                     ELSE now]

\* The request was answered before the chain: no session (helpers.go:550-553).
notServed == [hist EXCEPT !.at = now, !.cachedAt = -1]

\* A pass of the sweep ran; it changed the session or not, deleted it or not.
swept(changed, deleted) ==
    [at |-> IF changed THEN -1 ELSE hist.at,
     cachedAt |-> IF deleted THEN -1 ELSE hist.cachedAt,
     sent |-> hist.sent,
     swept |-> TRUE]

\* A whole transaction of sessionMiddleware (helpers.go:548-578) on the local
\* store in one step: look the session up, lock it, run the chain on the
\* shared object, unlock it; resp keeps the answer.
Transaction(h, id, r) ==
    /\ storeType = "memory"
    /\ pc[h] = "idle"
    /\ req' = [req EXCEPT ![h] = r]
    /\ IF Known(client, ClientTokenOf(id))
       THEN /\ memTryLock(client[ClientTokenOf(id)])
            /\ LET o == sessionMiddleware(objs[client[ClientTokenOf(id)]], r)
               IN  /\ objs' = [objs EXCEPT ![client[ClientTokenOf(id)]] = o.s]
                   /\ resp' = [resp EXCEPT ![h] = o.resp]
       ELSE /\ objs' = objs
            /\ resp' = [resp EXCEPT ![h] = WriteError("sessionUnknown")]
    /\ hist' = IF Known(client, ClientTokenOf(id))
               THEN served(objs[client[ClientTokenOf(id)]], r)
               ELSE notServed
    /\ UNCHANGED <<storeType, redisVars, confVars, negVars, ttlVars, getVars, timeVars,
                   requestor, client, mutex, pc, ref, sweepVars>>

\* A whole pass of deleteExpired (sessions.go:166-211) in one step: every
\* session of the snapshot is locked, visited and unlocked, then the expired
\* ones are deleted from both indexes.
DeleteExpired ==
    /\ storeType = "memory"
    /\ spc = "idle"
    /\ \A t \in DOMAIN requestor : memTryLock(requestor[t])
    /\ objs' = [id \in DOMAIN objs |->
                   IF \E t \in DOMAIN requestor : requestor[t] = id
                   THEN sweepVisit(objs[id]).s
                   ELSE objs[id]]
    /\ memDelete({t \in DOMAIN requestor : sweepVisit(objs[requestor[t]]).expired})
    /\ hist' = swept(objs' # objs \/ requestor' # requestor, requestor' # requestor)
    /\ UNCHANGED <<storeType, redisVars, confVars, negVars, ttlVars, getVars, timeVars, mutex,
                   handlerVars, sweepVars>>

\* A whole pass of a second deleteExpired (sessions.go:166-211) between two
\* steps of the first, which holds no session lock at that point.
ConcurrentSweep ==
    /\ storeType = "memory"
    /\ spc = "loop"
    /\ \A t \in DOMAIN requestor : memTryLock(requestor[t])
    /\ objs' = [id \in DOMAIN objs |->
                   IF \E t \in DOMAIN requestor : requestor[t] = id
                   THEN sweepVisit(objs[id]).s
                   ELSE objs[id]]
    /\ memDelete({t \in DOMAIN requestor : sweepVisit(objs[requestor[t]]).expired})
    /\ hist' = swept(objs' # objs \/ requestor' # requestor, requestor' # requestor)
    /\ UNCHANGED <<storeType, redisVars, confVars, negVars, ttlVars, getVars, timeVars, mutex,
                   handlerVars, sweepVars>>

Next ==
    \/ \E id \in SessionIds, r \in SessionRequests :
          NewSessionAdd(id, "disclosing", r)
    \/ \E id \in SessionIds : NewSessionReturn(id)
    \/ \E id \in SessionIds, r \in Requests : Transaction("h1", id, r)
    \/ DeleteExpired
    \/ \E d \in StoreDeltas : Tick(d)

Spec == Init /\ [][Next]_vars

-----------------------------------------------------------------------------
(* SpecCache: one session in the local store, its response cache and its
   expiry, under one configuration *)

\* The sessions differ by their ClientTimeout: none, one minute, ten minutes.
CacheSessionRequests ==
    [f : {PlainFeatures}, ClientTimeout : {0, 60, 600}, Host : {""}, CallbackURL : {""}]

\* The requests of the client and of the frontend; the pairing code drawn
\* while an options request is served is any of PairingCodes.
CacheRequests ==
    {FetchRequest(NewVersion(2, 4), NewVersion(2, 8), "clientAuth")}
    \cup {ProofsRequest("validProofs", "clientAuth"),
          ProofsRequest("invalidProofs", "clientAuth"),
          ProofsRequest("validProofs", "wrongAuth")}
    \cup {OptionsRequest("pin", FrontendAuthOf("s1"), c) : c \in PairingCodes}
    \cup {PairingCompletedRequest(FrontendAuthOf("s1"))}

InitCache ==
    /\ AcceptInsecureProtocolVersions = TRUE
    /\ minSecureProtocolVersion = maxProtocolVersion
    /\ NoNegotiation
    /\ NoLifetime
    /\ NoGetRequest
    /\ storeType = "memory"
    /\ InitStore

NextCache ==
    \/ \E id \in SessionIds, r \in CacheSessionRequests :
          NewSessionAdd(id, "disclosing", r)
    \/ \E id \in SessionIds : NewSessionReturn(id)
    \/ \E id \in SessionIds, r \in CacheRequests : Transaction("h1", id, r)
    \/ DeleteExpired
    \/ \E d \in Deltas : Tick(d)

SpecCache == InitCache /\ [][NextCache]_vars

-----------------------------------------------------------------------------
(* SpecHost: one session in the local store that expects no Host, the Host
   the requests come with, or another one *)

\* Base().Host of the session request; every request comes with Host "server".
HostSessionRequests ==
    [f : {PlainFeatures}, ClientTimeout : {0}, Host : {"", "server", "elsewhere"},
     CallbackURL : {""}]

HostRequests ==
    {FetchRequest(NewVersion(2, 4), NewVersion(2, 8), "clientAuth"),
     ProofsRequest("validProofs", "clientAuth"),
     ProofsRequest("invalidProofs", "clientAuth"),
     RequestRequest("clientAuth"),
     RequestRequest("wrongAuth"),
     OptionsRequest("pin", FrontendAuthOf("s1"), "pairingCode-1"),
     PairingCompletedRequest(FrontendAuthOf("s1")),
     PairingCompletedRequest("wrongAuth")}

InitHost ==
    /\ AcceptInsecureProtocolVersions = TRUE
    /\ minSecureProtocolVersion = maxProtocolVersion
    /\ NoNegotiation
    /\ NoLifetime
    /\ NoGetRequest
    /\ storeType = "memory"
    /\ InitStore

NextHost ==
    \/ \E id \in SessionIds, r \in HostSessionRequests :
          NewSessionAdd(id, "disclosing", r)
    \/ \E id \in SessionIds : NewSessionReturn(id)
    \/ \E id \in SessionIds, r \in HostRequests : Transaction("h1", id, r)
    \/ DeleteExpired
    \/ \E d \in Deltas : Tick(d)

SpecHost == InitHost /\ [][NextHost]_vars

-----------------------------------------------------------------------------
(* SpecCallback: one handler and the sweep on one session in the local store,
   step by step; the requestor asked for a result callback or did not *)

CallbackSessionRequests ==
    [f : {PlainFeatures}, ClientTimeout : {0}, Host : {""},
     CallbackURL : {"", CallbackUp, CallbackDown}]

\* The client fetches with a supported or an unsupported version window and
\* posts proofs that verify or do not.
CallbackRequests ==
    {FetchRequest(NewVersion(2, 4), NewVersion(2, 8), "clientAuth"),
     FetchRequest(NewVersion(2, 9), NewVersion(2, 9), "clientAuth"),
     ProofsRequest("validProofs", "clientAuth"),
     ProofsRequest("invalidProofs", "clientAuth")}

InitCallback ==
    /\ AcceptInsecureProtocolVersions = TRUE
    /\ minSecureProtocolVersion = maxProtocolVersion
    /\ NoNegotiation
    /\ NoLifetime
    /\ NoGetRequest
    /\ storeType = "memory"
    /\ InitStore

NextCallback ==
    \/ \E id \in SessionIds, r \in CallbackSessionRequests :
          NewSessionAdd(id, "disclosing", r)
    \/ \E id \in SessionIds : NewSessionReturn(id)
    \/ \E id \in SessionIds, r \in CallbackRequests : Begin("h1", id, r)
    \/ Lock("h1")
    \/ Serve("h1")
    \/ Unlock("h1")
    \/ Reply("h1")
    \/ SweepSnapshot
    \/ SweepLock
    \/ SweepCheck
    \/ SweepUnlock
    \/ SweepDelete
    \/ \E d \in StoreDeltas : Tick(d)

SpecCallback == InitCallback /\ [][NextCallback]_vars

-----------------------------------------------------------------------------
(* SpecStores: two concurrent handlers on one session, in either store *)

\* The session the handlers share and the requests they send.
StoreSessionRequests ==
    {[f |-> PlainFeatures, ClientTimeout |-> 0, Host |-> "", CallbackURL |-> ""]}
StoreRequests ==
    {FetchRequest(NewVersion(2, 4), NewVersion(2, 8), "clientAuth"),
     ProofsRequest("validProofs", "clientAuth")}

InitStores ==
    /\ AcceptInsecureProtocolVersions = TRUE
    /\ minSecureProtocolVersion = maxProtocolVersion
    /\ NoNegotiation
    /\ NoLifetime
    /\ NoGetRequest
    /\ storeType \in {"memory", "redis"}
    /\ InitStore

NextStores ==
    \/ \E id \in SessionIds, r \in StoreSessionRequests :
          NewSessionAdd(id, "disclosing", r)
    \/ \E id \in SessionIds : NewSessionReturn(id)
    \/ \E h \in Handlers, id \in SessionIds, r \in StoreRequests : Begin(h, id, r)
    \/ \E h \in Handlers : Lock(h)
    \/ \E h \in Handlers : Serve(h)
    \/ \E h \in Handlers : Unlock(h)
    \/ \E h \in Handlers : Reply(h)
    \/ SweepSnapshot
    \/ SweepLock
    \/ SweepCheck
    \/ SweepUnlock
    \/ SweepDelete
    \/ \E id \in SessionIds, r \in StoreSessionRequests :
          RNewSessionAdd(id, "disclosing", r)
    \/ \E id \in SessionIds : RNewSessionReturn(id)
    \/ \E h \in Handlers, id \in SessionIds, r \in StoreRequests : RBegin(h, id, r)
    \/ \E h \in Handlers : RLock(h)
    \/ \E h \in Handlers : RLockBusy(h)
    \/ \E h \in Handlers : RLoad(h)
    \/ \E h \in Handlers : RServe(h)
    \/ \E h \in Handlers : RUpdateCheck(h)
    \/ \E h \in Handlers : RWrite(h)
    \/ \E h \in Handlers : RUnlock(h)
    \/ \E id \in SessionIds : LockExpire(id)
    \/ \E d \in StoreDeltas : Tick(d)

SpecStores == InitStores /\ [][NextStores]_vars

-----------------------------------------------------------------------------
(* SpecSweeps: two passes of the sweep at once on the local store, the first
   step by step, the second between its steps *)

InitSweeps ==
    /\ AcceptInsecureProtocolVersions = TRUE
    /\ minSecureProtocolVersion = maxProtocolVersion
    /\ NoNegotiation
    /\ NoLifetime
    /\ NoGetRequest
    /\ storeType = "memory"
    /\ InitStore

NextSweeps ==
    \/ \E id \in SessionIds, r \in CacheSessionRequests :
          NewSessionAdd(id, "disclosing", r)
    \/ \E id \in SessionIds : NewSessionReturn(id)
    \/ \E id \in SessionIds, r \in StoreRequests : Transaction("h1", id, r)
    \/ SweepSnapshot
    \/ SweepLock
    \/ SweepCheck
    \/ SweepUnlock
    \/ SweepDelete
    \/ ConcurrentSweep
    \/ \E d \in Deltas : Tick(d)

SpecSweeps == InitSweeps /\ [][NextSweeps]_vars

-----------------------------------------------------------------------------
(* SpecRemote: one handler on one session in the remote store *)

\* The sessions differ by their ClientTimeout: none, one minute, and more
\* than twice maxSessionLifetime.
RemoteSessionRequests ==
    [f : {PlainFeatures}, ClientTimeout : {0, 60, 700}, Host : {""}, CallbackURL : {""}]

InitRemote ==
    /\ AcceptInsecureProtocolVersions = TRUE
    /\ minSecureProtocolVersion = maxProtocolVersion
    /\ NoNegotiation
    /\ NoLifetime
    /\ NoGetRequest
    /\ storeType = "redis"
    /\ InitStore

NextRemote ==
    \/ \E id \in SessionIds, r \in RemoteSessionRequests :
          RNewSessionAdd(id, "disclosing", r)
    \/ \E id \in SessionIds : RNewSessionReturn(id)
    \/ \E id \in SessionIds, r \in StoreRequests : RBegin("h1", id, r)
    \/ RLock("h1")
    \/ RLockBusy("h1")
    \/ RLoad("h1")
    \/ RServe("h1")
    \/ RUpdateCheck("h1")
    \/ RWrite("h1")
    \/ RUnlock("h1")
    \/ Reply("h1")
    \/ \E id \in SessionIds : LockExpire(id)
    \/ \E d \in Deltas : Tick(d)

SpecRemote == InitRemote /\ [][NextRemote]_vars

-----------------------------------------------------------------------------
(* SpecFaults: SpecRemote with operations of the remote store that fail
   while newSession runs *)

NextFaults ==
    \/ NextRemote
    \/ \E id \in SessionIds : RNewSessionAddFails(id)
    \/ \E id \in SessionIds, r \in RemoteSessionRequests :
          RNewSessionNoLock(id, "disclosing", r)

SpecFaults == InitRemote /\ [][NextFaults]_vars

-----------------------------------------------------------------------------
(* SpecLive: one session in the local store; clients and frontend are active
   before the clock first advances and silent afterwards, the sweep runs at
   every instant of the clock *)

LiveSessionRequests ==
    [f : {PlainFeatures}, ClientTimeout : {0, 60}, Host : {""}, CallbackURL : {""}]

\* Requests arrive while the clock has not advanced.
Active == now = 0

\* The clock advances past maxSessionLifetime once the sweep has run.
Advance == hist.swept /\ \E d \in StoreDeltas : Tick(d)

NextLive ==
    \/ \E id \in SessionIds, r \in LiveSessionRequests :
          Active /\ NewSessionAdd(id, "disclosing", r)
    \/ \E id \in SessionIds : NewSessionReturn(id)
    \/ \E id \in SessionIds, r \in CacheRequests :
          Active /\ Transaction("h1", id, r)
    \/ DeleteExpired
    \/ Advance

\* The sweep is run again and again, time goes on, newSession returns.
SpecLive ==
    /\ InitCache
    /\ [][NextLive]_vars
    /\ WF_vars(DeleteExpired)
    /\ WF_vars(Advance)
    /\ \A id \in SessionIds : WF_vars(NewSessionReturn(id))

-----------------------------------------------------------------------------
(* SpecOptions: one session in the local store whose frontend asks for every
   pairing method, known or not, in every status *)

\* The pairing methods a frontend sends: none given, none, pin, an unknown one.
PairingMethods == {"", PairingMethodNone, PairingMethodPin, "qr"}

OptionsRequests ==
    {FetchRequest(NewVersion(2, 4), NewVersion(2, 8), "clientAuth"),
     ProofsRequest("validProofs", "clientAuth"),
     PairingCompletedRequest(FrontendAuthOf("s1"))}
    \cup {OptionsRequest(m, FrontendAuthOf("s1"), c) :
             m \in PairingMethods, c \in PairingCodes}

NextOptions ==
    \/ \E id \in SessionIds, r \in StoreSessionRequests :
          NewSessionAdd(id, "disclosing", r)
    \/ \E id \in SessionIds : NewSessionReturn(id)
    \/ \E id \in SessionIds, r \in OptionsRequests : Transaction("h1", id, r)
    \/ DeleteExpired
    \/ \E d \in StoreDeltas : Tick(d)

SpecOptions == InitCache /\ [][NextOptions]_vars

-----------------------------------------------------------------------------
(* SpecOnce: one session with a CallbackURL in the remote store, one handler
   and the requestor reading the session *)

OnceSessionRequests ==
    {[f |-> PlainFeatures, ClientTimeout |-> 0, Host |-> "", CallbackURL |-> CallbackUp]}

\* Bound on the callbacks sent before the last read or transaction begins.
MaxSent == 2

NextOnce ==
    \/ \E id \in SessionIds, r \in OnceSessionRequests :
          RNewSessionAdd(id, "disclosing", r)
    \/ \E id \in SessionIds : RNewSessionReturn(id)
    \/ \E id \in SessionIds, r \in StoreRequests :
          hist.sent < MaxSent /\ RBegin("h1", id, r)
    \/ RLock("h1")
    \/ RLockBusy("h1")
    \/ RLoad("h1")
    \/ RServe("h1")
    \/ RUpdateCheck("h1")
    \/ RWrite("h1")
    \/ RUnlock("h1")
    \/ Reply("h1")
    \/ \E id \in SessionIds : hist.sent < MaxSent /\ RGet(id)
    \/ \E id \in SessionIds : LockExpire(id)
    \/ \E d \in StoreDeltas : Tick(d)

SpecOnce == InitRemote /\ [][NextOnce]_vars

-----------------------------------------------------------------------------
(* SpecTokens: two sessions in one store, local or remote, one handler *)

InitTokens ==
    /\ AcceptInsecureProtocolVersions = TRUE
    /\ minSecureProtocolVersion = maxProtocolVersion
    /\ NoNegotiation
    /\ NoLifetime
    /\ NoGetRequest
    /\ storeType \in {"memory", "redis"}
    /\ InitStore

NextTokens ==
    \/ \E id \in TokenSessionIds, r \in StoreSessionRequests :
          NewSessionAdd(id, "disclosing", r)
    \/ \E id \in TokenSessionIds : NewSessionReturn(id)
    \/ \E id \in TokenSessionIds, r \in StoreRequests : Transaction("h1", id, r)
    \/ DeleteExpired
    \/ \E id \in TokenSessionIds, r \in StoreSessionRequests :
          RNewSessionAdd(id, "disclosing", r)
    \/ \E id \in TokenSessionIds : RNewSessionReturn(id)
    \/ \E id \in TokenSessionIds, r \in StoreRequests : RBegin("h1", id, r)
    \/ RLock("h1")
    \/ RLockBusy("h1")
    \/ RLoad("h1")
    \/ RServe("h1")
    \/ RUpdateCheck("h1")
    \/ RWrite("h1")
    \/ RUnlock("h1")
    \/ Reply("h1")
    \/ \E id \in TokenSessionIds : LockExpire(id)
    \/ \E d \in StoreDeltas : Tick(d)

SpecTokens == InitTokens /\ [][NextTokens]_vars

-----------------------------------------------------------------------------
(* SpecNeg: one call of the negotiator on every bounded input *)

InitNeg ==
    /\ InitConf
    /\ NoLifetime
    /\ NoGetRequest
    /\ storeType = "memory"
    /\ InitStore
    /\ negIn \in [f : Features, minClient : Versions, maxClient : Versions]
    /\ negOut = <<>>

Negotiate ==
    /\ negOut = <<>>
    /\ negOut' = <<chooseProtocolVersion(negIn.f, negIn.minClient, negIn.maxClient)>>
    /\ UNCHANGED <<negIn, auxVars, storeType, redisVars, confVars, timeVars, memVars, handlerVars, sweepVars>>

NextNeg == Negotiate

SpecNeg == InitNeg /\ [][NextNeg]_vars

-----------------------------------------------------------------------------
(* SpecLifetime: one call of timeout and ttl on every bounded input *)

\* The seconds a session may have been inactive for when its lifetime is asked.
Elapsed == {0, 30, 90, 400}

\* The configured lifetimes, in minutes.
MaxSessionLifetimes == {5, 10}
SessionResultLifetimes == {0, 1, 5}

AllStatuses ==
    {ServerStatusInitialized, ServerStatusPairing, ServerStatusConnected,
     ServerStatusCancelled, ServerStatusDone, ServerStatusTimeout}

InitLifetime ==
    /\ AcceptInsecureProtocolVersions = TRUE
    /\ minSecureProtocolVersion = maxProtocolVersion
    /\ NoNegotiation
    /\ storeType = "memory"
    /\ InitStore
    /\ ttlIn \in [s : [Status : AllStatuses, LastActive : {0},
                       Rrequest : [ClientTimeout : {0, 60, 600}]],
                  conf : {Configuration(m, r) : m \in MaxSessionLifetimes,
                                                r \in SessionResultLifetimes}]
    /\ ttlOut = <<>>
    /\ NoGetRequest

\* The clock moves before the lifetime is asked.
Elapse(d) ==
    /\ ttlOut = <<>>
    /\ now = 0
    /\ now' = d
    /\ UNCHANGED <<nticks, ttlVars, getVars, hist, confVars, negVars, storeType, memVars,
                   handlerVars, sweepVars, redisVars>>

Lifetime ==
    /\ ttlOut = <<>>
    /\ ttlOut' = <<[timeout |-> timeout(ttlIn.s, ttlIn.conf),
                    ttl |-> ttl(ttlIn.s, ttlIn.conf)]>>
    /\ UNCHANGED <<ttlIn, getVars, hist, confVars, negVars, timeVars, storeType, memVars,
                   handlerVars, sweepVars, redisVars>>

NextLifetime ==
    \/ \E d \in Elapsed \ {0} : Elapse(d)
    \/ Lifetime

SpecLifetime == InitLifetime /\ [][NextLifetime]_vars

-----------------------------------------------------------------------------
(* SpecRequest: getRequest on a session request whose credentials lie on the
   heap. An address is an index of heap; an object is a credential request
   or a session request, whose Credentials are addresses ([]*CredentialRequest,
   helpers.go:150, 196, 230). *)

MaxCredentials == 2
MaxCalls == 2

RevocationKeys == {"", "key1", "key2"}

\* irma.CredentialRequest, the fields helpers.go reads (253, 258, 338, 339)
CredentialRequests ==
    [CredentialTypeID : {"irma-demo.MijnOverheid.root"},
     RevocationKey : RevocationKeys, RevocationSupported : BOOLEAN]

CredentialLists ==
    UNION {[1..n -> CredentialRequests] : n \in 0..MaxCredentials}

\* The addresses first+1 .. first+n, in order
Addresses(first, n) == [i \in 1..n |-> first + i]

\* encoding/json.Marshal of a credential request: a field tagged omitempty is
\* left out when it holds the zero value
MarshalCredential(cred) ==
    [f \in {"credential"}
            \cup (IF cred.RevocationKey # "" THEN {"revocationKey"} ELSE {})
            \cup (IF cred.RevocationSupported THEN {"revocationSupported"} ELSE {})
       |-> CASE f = "credential" -> cred.CredentialTypeID
             [] f = "revocationKey" -> cred.RevocationKey
             [] OTHER -> cred.RevocationSupported]

\* encoding/json.Unmarshal into a new credential request: a field that is
\* absent keeps the zero value
UnmarshalCredential(bts) ==
    [CredentialTypeID    |-> bts["credential"],
     RevocationKey       |-> IF "revocationKey" \in DOMAIN bts
                             THEN bts["revocationKey"] ELSE "",
     RevocationSupported |-> IF "revocationSupported" \in DOMAIN bts
                             THEN bts["revocationSupported"] ELSE FALSE]

\* helpers.go:423: the request at address i as JSON, the credentials by value
Marshal(mem, i) ==
    [issuing     |-> mem[i].issuing,
     credentials |-> [k \in 1..Len(mem[i].Credentials) |->
                         MarshalCredential(mem[mem[i].Credentials[k]])]]

\* helpers.go:422, 427: the JSON read into objects that are allocated for it
Unmarshal(mem, bts) ==
    LET n == Len(bts.credentials)
        creds == [k \in 1..n |-> UnmarshalCredential(bts.credentials[k])]
        cpy == [issuing |-> bts.issuing, Credentials |-> Addresses(Len(mem), n)]
    IN  [heap |-> mem \o creds \o <<cpy>>, ptr |-> Len(mem) + n + 1]

\* mutant: a copy of the request struct alone, which shares the credentials
copyObjectShallow(mem, i) == [heap |-> Append(mem, mem[i]), ptr |-> Len(mem) + 1]

\* helpers.go:421-431
copyObject(mem, i) == Unmarshal(mem, Marshal(mem, i))

\* helpers.go:326-342: the heap after the call and the address returned
getRequest(mem, i) ==
    IF ~mem[i].issuing
    THEN [heap |-> mem, ptr |-> i]
    ELSE LET cpy == copyObject(mem, i)
             creds == {cpy.heap[cpy.ptr].Credentials[k] :
                          k \in 1..Len(cpy.heap[cpy.ptr].Credentials)}
         IN  [heap |-> [k \in 1..Len(cpy.heap) |->
                          IF k \in creds
                          THEN [cpy.heap[k] EXCEPT
                                  !.RevocationSupported = cpy.heap[k].RevocationKey # "",
                                  !.RevocationKey = ""]
                          ELSE cpy.heap[k]],
              ptr |-> cpy.ptr]

\* The session's request: an issuance request with up to MaxCredentials
\* credentials, or a disclosure request, which has none.
InitRequest ==
    /\ AcceptInsecureProtocolVersions = TRUE
    /\ minSecureProtocolVersion = maxProtocolVersion
    /\ NoNegotiation
    /\ storeType = "memory"
    /\ InitStore
    /\ NoLifetime
    /\ \E creds \in CredentialLists, issuing \in BOOLEAN :
          /\ issuing \/ creds = <<>>
          /\ heap = creds \o <<[issuing |-> issuing,
                                Credentials |-> Addresses(0, Len(creds))]>>
          /\ stored = Len(creds) + 1
    /\ returned = <<>>

\* One call of session.getRequest()
GetRequest ==
    /\ stored # 0
    /\ Len(returned) < MaxCalls
    /\ heap' = getRequest(heap, stored).heap
    /\ returned' = Append(returned, getRequest(heap, stored).ptr)
    /\ UNCHANGED <<stored, hist, ttlVars, confVars, negVars, timeVars, storeType,
                   memVars, handlerVars, sweepVars, redisVars>>

NextRequest == GetRequest

SpecRequest == InitRequest /\ [][NextRequest]_vars

-----------------------------------------------------------------------------
(* Claims about the negotiator, checked under SpecNeg *)

\* The order on versions by (major, minor).
VLess(a, b) == a.Major < b.Major \/ (a.Major = b.Major /\ a.Minor < b.Minor)

VLeq(a, b) == a = b \/ VLess(a, b)

VMin(a, b) == IF VLess(b, a) THEN b ELSE a

VMaxOf(S) == CHOOSE v \in S : \A w \in S : VLeq(w, v)

Called == negOut # <<>>

\* C7: chooseProtocolVersion fails iff minClient > maxServer, or maxClient <
\* effectiveMinServer, or maxClient < minClient; otherwise it returns exactly
\* min(maxClient, maxServer), with maxServer = 2.8.
C7_FailIffElseMin ==
    Called =>
        LET r      == negOut[1]
            maxS   == NewVersion(2, 8)
            effMin == minSessionProtocolVersion(negIn.f)
            fails  == \/ VLess(maxS, negIn.minClient)
                      \/ VLess(negIn.maxClient, effMin)
                      \/ VLess(negIn.maxClient, negIn.minClient)
        IN  /\ r.err <=> fails
            /\ ~fails => r.version = VMin(negIn.maxClient, maxS)

\* C7 witness: a client whose window reaches above 2.8 is given 2.8.
C7_Witness ==
    /\ Called
    /\ ~negOut[1].err
    /\ negIn.maxClient = NewVersion(3, 1)
    /\ negIn.minClient = NewVersion(2, 8)
    /\ negOut[1].version = NewVersion(2, 8)

\* C8: a returned version lies in the client window and in the window
\* [effectiveMinServer, maxServer]; the negotiator fails only when no version
\* lies in both windows.
C8_ResultInBothWindows ==
    Called =>
        LET r      == negOut[1]
            effMin == minSessionProtocolVersion(negIn.f)
            inBoth(v) == /\ VLeq(negIn.minClient, v) /\ VLeq(v, negIn.maxClient)
                         /\ VLeq(effMin, v) /\ VLeq(v, maxProtocolVersion)
        IN  /\ ~r.err => inBoth(r.version)
            /\ r.err => ~ \E v \in Versions : inBoth(v)

\* C8 witness: a well-formed client window that lies wholly above the
\* server's window is refused.
C8_Witness ==
    /\ Called
    /\ negOut[1].err
    /\ negIn.minClient = NewVersion(2, 9)
    /\ negIn.maxClient = NewVersion(3, 0)

\* The minimum the spec assigns to each requested feature.
FeatureMinimums(f) ==
    {NewVersion(2, 4)}
    \cup (IF ~f.LegacyCompatible THEN {NewVersion(2, 5)} ELSE {})
    \cup (IF f.Revocation THEN {NewVersion(2, 6)} ELSE {})
    \cup (IF f.NextSession THEN {NewVersion(2, 7)} ELSE {})

\* A single-version window [v, v] inside the server's maximum is refused
\* exactly when v is below the enforced minimum m.
Enforces(m) ==
    (/\ Called
     /\ negIn.minClient = negIn.maxClient
     /\ VLeq(negIn.maxClient, maxProtocolVersion))
    => (negOut[1].err <=> VLess(negIn.maxClient, m))

\* C9 as stated: for every combination of features the enforced minimum is
\* the highest of the features' minimums (2.4, 2.5, 2.6, 2.7).
C9_Original == Enforces(VMaxOf(FeatureMinimums(negIn.f)))

\* C9 amended: with AcceptInsecureProtocolVersions set, the enforced minimum
\* is the highest of the features' minimums; without it the enforced minimum
\* is minSecureProtocolVersion whatever the features.
C9_MinimumByFeatures ==
    Enforces(IF AcceptInsecureProtocolVersions
             THEN VMaxOf(FeatureMinimums(negIn.f))
             ELSE minSecureProtocolVersion)

\* C9 witness: revocation and a chained session together refuse 2.6.
C9_Witness ==
    /\ Called
    /\ AcceptInsecureProtocolVersions
    /\ negIn.f.Revocation /\ negIn.f.NextSession
    /\ negIn.minClient = NewVersion(2, 6)
    /\ negIn.maxClient = NewVersion(2, 6)
    /\ negOut[1].err

-----------------------------------------------------------------------------
(* Claims about the stores and the state machine, checked under SpecStores *)

\* The stored session: the object the local store's indexes point to, the
\* value of the session key in the remote store.
Stored(id) ==
    IF storeType = "memory" THEN id \in DOMAIN objs
    ELSE ClientTokenOf(id) \in DOMAIN rsession
StoredSession(id) ==
    IF storeType = "memory" THEN objs[id] ELSE rsession[ClientTokenOf(id)].val
LockHolder(id) == IF storeType = "memory" THEN mutex[id] ELSE rlock[id]

\* A handler is in its critical section from the lock it obtained to its unlock.
InCriticalSection(h) ==
    IF storeType = "memory" THEN pc[h] \in {"cs", "unlock"}
    ELSE pc[h] \in {"load", "cs", "update", "write", "unlock"}
Holders ==
    {h \in Handlers : InCriticalSection(h)}
    \cup (IF spc \in {"check", "unlock"} THEN {"sweep"} ELSE {})
    \cup (IF \E id \in SessionIds : LockHolder(id) = "newSession"
          THEN {"newSession"} ELSE {})

\* C1 as stated: in the local store and in the remote store, also when the
\* remote lock's time to live elapses while a handler is still running, at
\* every moment at most one handler or sweep step holds the session between
\* lock and unlock.
C1_Original == Cardinality(Holders) <= 1

\* C1 amended: in the local store at most one handler or sweep step holds the
\* session between lock and unlock; in the remote store a handler obtains the
\* lock only while no other holder's lock is unexpired, so two critical
\* sections overlap only after the earlier lock's time to live has elapsed.
C1_NoInterleavingUntilExpiry ==
    /\ [](storeType = "memory" => Cardinality(Holders) <= 1)
    /\ [][\A h \in Handlers :
            (storeType = "redis" /\ pc[h] = "lock" /\ pc'[h] = "load")
                => rlock[ref[h]] = Free]_vars

\* Two transactions contend for the session: one is in its critical section
\* while the other waits for the lock.
C1_Witness ==
    /\ storeType = "memory"
    /\ pc["h1"] = "cs"
    /\ pc["h2"] = "lock"
    /\ ref["h1"] = ref["h2"]

\* C2: in the remote store a transaction whose lock has expired never persists
\* its session: whenever update writes the session keys, the writer still
\* owns the lock, also when the lock expires between the check and the write.
C2_ExpiredLockNeverPersists ==
    [][\A h \in Handlers :
         (storeType = "redis" /\ pc[h] = "write" /\ pc'[h] # "write")
             => rlock[ref[h]] = h]_vars

Edge(a, b) ==
    \/ a = ServerStatusInitialized /\ b \in {ServerStatusConnected, ServerStatusPairing}
    \/ a = ServerStatusPairing /\ b = ServerStatusConnected
    \/ ~Finished(a) /\ Finished(b)

\* C3: every change of a stored session's Status follows an edge of the state
\* machine: INITIALIZED->CONNECTED, INITIALIZED->PAIRING, PAIRING->CONNECTED,
\* or a non-terminal state to DONE, CANCELLED or TIMEOUT.
C3_StatusFollowsEdges ==
    [][\A id \in SessionIds :
         (Stored(id) /\ Stored(id)'
            /\ StoredSession(id)'.Status # StoredSession(id).Status)
             => Edge(StoredSession(id).Status, StoredSession(id)'.Status)]_vars

\* C4: terminal statuses are absorbing: once a stored session's Status is
\* DONE, CANCELLED or TIMEOUT no step changes it.
C4_TerminalAbsorbing ==
    [][\A id \in SessionIds :
         (Stored(id) /\ Finished(StoredSession(id).Status))
             => StoredSession(id)'.Status = StoredSession(id).Status]_vars

\* The fields other than ResponseCache and Result.
Frozen(s) ==
    <<s.Action, s.Rrequest, s.LastActive, s.RequestorToken, s.ClientToken,
      s.Status, s.Options, s.FrontendAuth, s.Version, s.ClientAuth>>

\* C5: once a stored session's Status is terminal every step leaves all its
\* fields except ResponseCache and Result unchanged.
C5_TerminalFreezesFields ==
    [][\A id \in SessionIds :
         (Stored(id) /\ Finished(StoredSession(id).Status))
             => Frozen(StoredSession(id))' = Frozen(StoredSession(id))]_vars

\* C6: every change of a stored session is made by a party that holds the
\* session's lock: the handler or the sweep that takes the step.
C6_MutationUnderLock ==
    [][\A id \in SessionIds :
         (Stored(id) /\ Stored(id)' /\ StoredSession(id)' # StoredSession(id))
             => \/ \E h \in Handlers : pc'[h] # pc[h] /\ LockHolder(id) = h
                \/ spc' # spc /\ LockHolder(id) = "sweep"]_vars

-----------------------------------------------------------------------------
(* Claims about the client fetch, checked under Spec *)

\* The fetch of session s1 with the client window w, served on an
\* INITIALIZED session.
Fetched(w) ==
    /\ Known(client, ClientTokenOf("s1"))
    /\ objs["s1"].Status = ServerStatusInitialized
    /\ Transaction("h1", "s1", FetchRequest(w[1], w[2], "clientAuth"))

CancelledUnsupported(s) ==
    /\ s.Status = ServerStatusCancelled
    /\ s.Result.Status = ServerStatusCancelled
    /\ s.Result.Err = "protocolVersionNotSupported"

NegotiatedVersion(s, v) ==
    /\ s.Status \in {ServerStatusConnected, ServerStatusPairing}
    /\ s.Version = v

\* What holds of every fetch whatever the configuration: a failed negotiation
\* cancels the session with protocolVersionNotSupported, a successful one
\* records the version; the window [1.0, 1.3] always fails.
FetchOutcome(w) ==
    LET v == chooseProtocolVersion(objs["s1"].Rrequest.f, w[1], w[2])
    IN  /\ v.err => CancelledUnsupported(objs'["s1"])
        /\ ~v.err => NegotiatedVersion(objs'["s1"], v.version)
        /\ w = <<NewVersion(1, 0), NewVersion(1, 3)>>
              => CancelledUnsupported(objs'["s1"])

\* The two examples on a session that requires revocation.
RevocationExamples(w) ==
    objs["s1"].Rrequest.f.Revocation =>
        /\ w = <<NewVersion(2, 5), NewVersion(2, 5)>>
              => CancelledUnsupported(objs'["s1"])
        /\ w = <<NewVersion(2, 4), NewVersion(2, 7)>>
              => NegotiatedVersion(objs'["s1"], NewVersion(2, 7))

\* C10 as stated: a failed negotiation on client fetch ends the session
\* CANCELLED with protocolVersionNotSupported, as for the window [1.0, 1.3];
\* on a session requiring revocation [2.5, 2.5] is cancelled and [2.4, 2.7]
\* negotiates 2.7 without cancelling.
C10_Original ==
    [][\A w \in ClientWindows :
         Fetched(w) => FetchOutcome(w) /\ RevocationExamples(w)]_vars

\* C10 amended: the same, the two examples on a session requiring revocation
\* holding when AcceptInsecureProtocolVersions is set (otherwise
\* minSecureProtocolVersion, not the session's features, decides them).
C10_FailedNegotiationCancels ==
    [][\A w \in ClientWindows :
         Fetched(w) =>
            /\ FetchOutcome(w)
            /\ AcceptInsecureProtocolVersions => RevocationExamples(w)]_vars

\* A session requiring revocation was fetched with a window the negotiator
\* rejects and has been cancelled.
C10_Witness ==
    /\ "s1" \in DOMAIN objs
    /\ AcceptInsecureProtocolVersions
    /\ objs["s1"].Rrequest.f.Revocation
    /\ CancelledUnsupported(objs["s1"])
    /\ resp["h1"] = WriteError("protocolVersionNotSupported")

-----------------------------------------------------------------------------
(* Claims about the response cache, checked under SpecCache *)

\* The session s1 is in the local store and holds a cache entry.
Cached ==
    /\ Known(client, ClientTokenOf("s1"))
    /\ objs["s1"].ResponseCache # EmptyCache
    /\ hist.cachedAt >= 0

\* The four conditions under which an entry is valid for a request to
\* endpoint with body message: same endpoint, same digest, same status as at
\* cache time, entry at most retryTimeLimit old.
ValidEntry(s, endpoint, message) ==
    /\ endpoint = s.ResponseCache.Endpoint
    /\ Sum256(message) = Sum256(s.ResponseCache.Message)
    /\ s.Status = s.ResponseCache.SessionStatus
    /\ now - hist.cachedAt <= retryTimeLimit

\* C11: checkCache returns the cached (status, response) iff the request's
\* endpoint and the digest of its body equal the cached ones, the session's
\* Status equals the status recorded with the entry and the entry is at most
\* 10 s old; in every other case it returns no cached response.
C11_ReplayIffFourConditions ==
    Cached =>
        \A r \in CacheRequests :
            LET s == objs["s1"]
                c == checkCache(s, Path(r), r.message)
            IN  IF ValidEntry(s, Path(r), r.message)
                THEN /\ c.status = s.ResponseCache.Status
                     /\ c.response = s.ResponseCache.Response
                ELSE /\ c.status = 0
                     /\ c.response = EmptyBody

\* The same POST again: same endpoint, same body, same credentials; what the
\* server draws from its random source while serving is not part of a request.
SamePost(a, b) ==
    /\ a.kind \in {"proofs", "options", "pairingcompleted"}
    /\ [a EXCEPT !.random = ""] = [b EXCEPT !.random = ""]

\* This step serves r, a repetition of the last request, which the session
\* answered, within retryTimeLimit of it, the session left alone in between.
Retry(r) ==
    /\ Cached
    /\ SamePost(req["h1"], r)
    /\ hist.at >= 0
    /\ now - hist.at <= retryTimeLimit
    /\ Transaction("h1", "s1", r)

\* C12: a POST repeated with an identical body to the same endpoint within
\* 10 s of the first attempt gets the same (HTTP status, body) as the first,
\* the chain below the cache is not executed for it, and the session is after
\* the retry as it was before it.
C12_RetryIsReplayed ==
    [][\A r \in CacheRequests :
         Retry(r) =>
            /\ resp'["h1"] = resp["h1"]
            /\ Replays(objs["s1"], r)
            /\ objs'["s1"] = objs["s1"]]_vars

\* The requests of the client (the others are the frontend's).
ClientRequest(r) == r.kind \in {"fetch", "proofs"}

\* The entry s holds was recorded before s became terminal.
AcrossTerminalBoundary(s) ==
    /\ s.ResponseCache # EmptyCache
    /\ ~Finished(s.ResponseCache.SessionStatus)
    /\ Finished(s.Status)

\* This step serves r on the session whose heap object is s1.
Serves(r) ==
    /\ "s1" \in DOMAIN objs
    /\ Transaction("h1", "s1", r)

\* The first half of C13: an entry recorded in a non-terminal status is not
\* what a request to the session, terminal by now, is answered from.
NoReplayAcrossBoundary(r) ==
    (Known(client, ClientTokenOf("s1")) /\ AcrossTerminalBoundary(objs["s1"]))
        => /\ ~Replays(objs["s1"], r)
           /\ objs'["s1"].ResponseCache.SessionStatus = objs["s1"].Status

OneEntry(s) ==
    DOMAIN s.ResponseCache =
        {"Endpoint", "Message", "Response", "Status", "SessionStatus"}

\* C14: the cache is consulted before the handler runs (a request the entry
\* answers is answered from it and leaves the session as it is); after every
\* execution that was not a replay the session's ResponseCache is exactly the
\* (endpoint, body, response, HTTP status, session status) of that execution;
\* a session holds one entry at most.
C14_FreshEntryAfterHandler ==
    [][\A r \in CacheRequests :
         (Known(client, ClientTokenOf("s1")) /\ Transaction("h1", "s1", r)) =>
            /\ OneEntry(objs'["s1"])
            /\ IF Replays(objs["s1"], r)
               THEN /\ objs'["s1"] = objs["s1"]
                    /\ resp'["h1"] = Response(objs["s1"].ResponseCache.Status,
                                              objs["s1"].ResponseCache.Response)
               ELSE objs'["s1"].ResponseCache =
                        [Endpoint      |-> Path(r),
                         Message       |-> r.message,
                         Response      |-> resp'["h1"].body,
                         Status        |-> resp'["h1"].status,
                         SessionStatus |-> objs'["s1"].Status]]_vars

\* The client's proofs were just verified, not replayed: the entry holds the
\* request, the answer and the status DONE the handler moved the session to.
C14_Witness ==
    /\ Known(client, ClientTokenOf("s1"))
    /\ hist.cachedAt = now
    /\ req["h1"] = ProofsRequest("validProofs", "clientAuth")
    /\ resp["h1"] = WriteJson(Body("VALID", NoVersion, FALSE, NoOptions))
    /\ objs["s1"].Status = ServerStatusDone
    /\ objs["s1"].ResponseCache =
          [Endpoint |-> "/proofs", Message |-> "validProofs",
           Response |-> Body("VALID", NoVersion, FALSE, NoOptions),
           Status |-> 200, SessionStatus |-> ServerStatusDone]

-----------------------------------------------------------------------------
(* Claims about expiry, checked under SpecCache, SpecStores and SpecLifetime *)

\* LastActive + the effective timeout has passed: ClientTimeout seconds for
\* an INITIALIZED session that has one, maxSessionLifetime otherwise.
TimeoutPassed(s) ==
    IF s.Status = ServerStatusInitialized /\ s.Rrequest.ClientTimeout # 0
    THEN s.LastActive + s.Rrequest.ClientTimeout < now
    ELSE s.LastActive + maxSessionLifetime < now

\* The session is in both indexes of the local store.
InStore(req1, cli1) ==
    /\ Known(req1, RequestorTokenOf("s1"))
    /\ Known(cli1, ClientTokenOf("s1"))

\* C15: a pass of the sweep visits the session under the session's own lock;
\* with the effective timeout ClientTimeout seconds if the session is
\* INITIALIZED and ClientTimeout is not 0, maxSessionLifetime otherwise: when
\* LastActive + timeout has passed a session that is not terminal becomes
\* TIMEOUT, one that is terminal is deleted; when it has not passed the
\* session is left as it is.
C15_SweepPass ==
    [][(InStore(requestor, client) /\ DeleteExpired) =>
          /\ mutex["s1"] = Free
          /\ IF TimeoutPassed(objs["s1"]) /\ ~Finished(objs["s1"].Status)
             THEN /\ InStore(requestor', client')
                  /\ objs'["s1"].Status = ServerStatusTimeout
                  /\ objs'["s1"].Result.Status = ServerStatusTimeout
             ELSE IF TimeoutPassed(objs["s1"])
             THEN /\ ~Known(requestor', RequestorTokenOf("s1"))
                  /\ ~Known(client', ClientTokenOf("s1"))
             ELSE /\ InStore(requestor', client')
                  /\ objs'["s1"] = objs["s1"]]_vars

\* A session with a ClientTimeout of one minute that no client fetched was
\* timed out by the sweep 61 s after it was started.
C15_Witness ==
    /\ InStore(requestor, client)
    /\ objs["s1"].Rrequest.ClientTimeout = 60
    /\ objs["s1"].Version = NoVersion
    /\ objs["s1"].Status = ServerStatusTimeout
    /\ objs["s1"].LastActive = 61
    /\ now = 61

Min(a, b) == IF a < b THEN a ELSE b

\* min(ClientTimeout, maxSessionLifetime), no ClientTimeout standing for
\* maxSessionLifetime.
CappedClientTimeout(s) ==
    IF s.Rrequest.ClientTimeout = 0 THEN maxSessionLifetime
    ELSE Min(s.Rrequest.ClientTimeout, maxSessionLifetime)

\* C16: an INITIALIZED session times out at min(ClientTimeout,
\* maxSessionLifetime) after LastActive: once a pass of the sweep has run, the
\* store holds no INITIALIZED session older than that, also when the
\* requestor's ClientTimeout is larger than maxSessionLifetime.
C16_ClientTimeoutCapped ==
    (hist.swept /\ InStore(requestor, client)
        /\ objs["s1"].Status = ServerStatusInitialized)
      => now <= objs["s1"].LastActive + CappedClientTimeout(objs["s1"])

\* The expiry the claim gives the keys of s, in seconds from the write.
ClaimedExpiry(s) ==
    IF Finished(s.Status) THEN maxSessionLifetime
    ELSE IF s.Status = ServerStatusInitialized /\ s.Rrequest.ClientTimeout # 0
    THEN Min(s.Rrequest.ClientTimeout, 2 * maxSessionLifetime)
    ELSE 2 * maxSessionLifetime

\* C17: each write of a session to the remote store sets the same expiry on
\* its two keys token:<R> and session:<C>, computed from the Status written:
\* maxSessionLifetime for a terminal session, min(ClientTimeout,
\* 2 * maxSessionLifetime) for an INITIALIZED one.
C17_RemoteExpiry ==
    [][(rsession' # rsession \/ rtoken' # rtoken) =>
          LET s == rsession'[ClientTokenOf("s1")].val
          IN  /\ rtoken'[RequestorTokenOf("s1")].exp
                    = rsession'[ClientTokenOf("s1")].exp
              /\ (Finished(s.Status) \/ s.Status = ServerStatusInitialized)
                    => rsession'[ClientTokenOf("s1")].exp = now + ClaimedExpiry(s)]_vars

\* timeout and ttl have been called on ttlIn.
LifetimeCalled == ttlOut # <<>>

\* The status-dependent timeout measured from LastActive, in seconds.
StatusTimeout(s, conf) ==
    LET limit == IF Finished(s.Status) THEN 0
                 ELSE IF s.Status = ServerStatusInitialized
                         /\ s.Rrequest.ClientTimeout # 0
                 THEN s.Rrequest.ClientTimeout
                 ELSE conf.MaxSessionLifetime * 60
    IN  s.LastActive + limit - now

-----------------------------------------------------------------------------
(* Claims about the indexes of the stores, checked under SpecCache and
   SpecTokens *)

\* The session s1 was started and the sweep has deleted it since.
Deleted ==
    /\ "s1" \in DOMAIN objs
    /\ ~Known(requestor, RequestorTokenOf("s1")) \/ ~Known(client, ClientTokenOf("s1"))

\* C19: after the sweep deleted a terminal session, every later lookup by its
\* RequestorToken and by its ClientToken finds no session, and every later
\* client request for the ClientToken is rejected with sessionUnknown, no
\* handler running on the session.
C19_DeletedStaysUnknown ==
    /\ [](Deleted => /\ Finished(objs["s1"].Status)
                     /\ ~Known(requestor, RequestorTokenOf("s1"))
                     /\ ~Known(client, ClientTokenOf("s1")))
    /\ [][Deleted =>
            /\ Deleted'
            /\ \A r \in CacheRequests :
                  Transaction("h1", "s1", r) =>
                     /\ resp'["h1"] = WriteError("sessionUnknown")
                     /\ objs' = objs]_vars

\* The client posted its proofs after the sweep deleted the session, which
\* had timed out, and was told the session is unknown.
C19_Witness ==
    /\ Deleted
    /\ objs["s1"].Status = ServerStatusTimeout
    /\ req["h1"] = ProofsRequest("validProofs", "clientAuth")
    /\ resp["h1"] = WriteError("sessionUnknown")

\* The session id is live: one of its tokens resolves in the store in use.
LiveSession(id) ==
    IF storeType = "memory"
    THEN Known(requestor, RequestorTokenOf(id)) \/ Known(client, ClientTokenOf(id))
    ELSE Live(rtoken, RequestorTokenOf(id)) \/ Live(rsession, ClientTokenOf(id))

\* The tokens of the session a lookup returned, <<>> when it returned none.
TokensOf(found) ==
    IF found = <<>> THEN <<>>
    ELSE <<found[1].RequestorToken, found[1].ClientToken>>

\* get and clientGet with the tokens of id resolve to one session, which
\* carries these tokens.
ResolveToSame(id) ==
    IF storeType = "memory"
    THEN /\ memGet(RequestorTokenOf(id)) = <<id>>
         /\ memClientGet(ClientTokenOf(id)) = <<id>>
         /\ TokensOf(<<objs[id]>>) = <<RequestorTokenOf(id), ClientTokenOf(id)>>
    ELSE /\ redisGet(RequestorTokenOf(id)) = redisClientGet(ClientTokenOf(id))
         /\ TokensOf(redisGet(RequestorTokenOf(id)))
               = <<RequestorTokenOf(id), ClientTokenOf(id)>>

\* No token of a is a token of b in the store in use.
NoSharedToken(a, b) ==
    IF storeType = "memory"
    THEN /\ objs[a].RequestorToken # objs[b].RequestorToken
         /\ objs[a].ClientToken # objs[b].ClientToken
    ELSE /\ TokensOf(redisGet(RequestorTokenOf(a)))[1]
               # TokensOf(redisGet(RequestorTokenOf(b)))[1]
         /\ TokensOf(redisGet(RequestorTokenOf(a)))[2]
               # TokensOf(redisGet(RequestorTokenOf(b)))[2]

\* The entries the indexes hold keep resolving to the session they resolved
\* to, as long as they exist.
EntriesKept ==
    /\ \A t \in DOMAIN requestor \cap DOMAIN requestor' : requestor'[t] = requestor[t]
    /\ \A t \in DOMAIN client \cap DOMAIN client' : client'[t] = client[t]
    /\ \A t \in DOMAIN rtoken \cap DOMAIN rtoken' : rtoken'[t].val = rtoken[t].val
    /\ \A t \in DOMAIN rsession \cap DOMAIN rsession' :
          TokensOf(<<rsession'[t].val>>) = TokensOf(<<rsession[t].val>>)

\* This step is the add of newSession for the session id.
Added(id) ==
    \/ id \notin DOMAIN objs /\ id \in DOMAIN objs'
    \/ ~created[id] /\ created'[id]

-----------------------------------------------------------------------------
(* Claims about the gates of the middleware chain, checked under SpecCache
   and SpecHost *)

\* The session but for the entry of its response cache, which cacheMiddleware
\* writes above the gates.
ButCache(s) == [s EXCEPT !.ResponseCache = EmptyCache]

\* This step serves r on the stored session s1 and runs the chain below the
\* cache for it.
Executes(r) ==
    /\ Known(client, ClientTokenOf("s1"))
    /\ ~Replays(objs["s1"], r)
    /\ Transaction("h1", "s1", r)

\* The error the client authorization gate answers with.
ClientGateError(s, r) ==
    IF s.Status = ServerStatusPairing THEN "pairingRequired"
    ELSE IF s.Status # ServerStatusConnected THEN "unexpectedRequest"
    ELSE "irmaUnauthorized"

\* C23: a handler behind the client authorization gate runs only if the
\* session is CONNECTED and the Authorization header equals ClientAuth; in
\* PAIRING the request is rejected with pairingRequired, in INITIALIZED or a
\* terminal status with unexpectedRequest, with a wrong Authorization with
\* irmaUnauthorized, and a rejected request leaves the session as it was.
C23_ClientAuthGate ==
    [][\A r \in CacheRequests :
         (r.kind = "proofs" /\ Executes(r)) =>
            IF objs["s1"].Status = ServerStatusConnected
               /\ r.auth = objs["s1"].ClientAuth
            THEN /\ objs'["s1"].Status \in {ServerStatusDone, ServerStatusCancelled}
                 /\ objs'["s1"].LastActive = now
                 /\ resp'["h1"].status = 200
            ELSE /\ pairingMiddleware(objs["s1"], r).s = objs["s1"]
                 /\ ButCache(objs'["s1"]) = ButCache(objs["s1"])
                 /\ resp'["h1"] = WriteError(ClientGateError(objs["s1"], r))]_vars

\* A connected client's proofs came with another Authorization than the one
\* the session recorded and were refused.
C23_Witness ==
    /\ Known(client, ClientTokenOf("s1"))
    /\ objs["s1"].Status = ServerStatusConnected
    /\ req["h1"] = ProofsRequest("validProofs", "wrongAuth")
    /\ resp["h1"] = WriteError("irmaUnauthorized")
    /\ objs["s1"].ResponseCache.Endpoint = "/proofs"

\* The session expects a Host and the request r comes with another one.
HostMismatch(s, r) == s.Rrequest.Host # "" /\ s.Rrequest.Host # r.host

\* The requests to the frontend endpoints.
FrontendRequest(r) == r.kind \in {"options", "pairingcompleted"}

\* What the handler of the frontend endpoint r asks for leaves behind.
FrontendHandler(s, r) ==
    IF r.kind = "options" THEN handleFrontendOptions(s, r)
    ELSE handlePairingCompleted(s, r)

\* C24: a handler of a frontend endpoint runs only if the Authorization
\* header equals the session's FrontendAuth; every other request is rejected,
\* no handler running and the session left as it was.
C24_FrontendAuthGate ==
    [][\A r \in HostRequests :
         (FrontendRequest(r) /\ Executes(r) /\ ~HostMismatch(objs["s1"], r)) =>
            IF r.auth = objs["s1"].FrontendAuth
            THEN /\ ButCache(objs'["s1"]) = ButCache(FrontendHandler(objs["s1"], r).s)
                 /\ resp'["h1"] = FrontendHandler(objs["s1"], r).resp
            ELSE /\ frontendMiddleware(objs["s1"], r).s = objs["s1"]
                 /\ ButCache(objs'["s1"]) = ButCache(objs["s1"])
                 /\ resp'["h1"] = WriteError("irmaUnauthorized")]_vars

\* The frontend's pairingcompleted came with a wrong Authorization while the
\* session was PAIRING: it was refused and the session is PAIRING still.
C24_Witness ==
    /\ Known(client, ClientTokenOf("s1"))
    /\ objs["s1"].Status = ServerStatusPairing
    /\ req["h1"] = PairingCompletedRequest("wrongAuth")
    /\ resp["h1"] = WriteError("irmaUnauthorized")
    /\ objs["s1"].ResponseCache.Endpoint = "/frontend/pairingcompleted"

\* C25: a request whose Host differs from the non-empty Host the session
\* expects is answered unauthorized and the session, ResponseCache included,
\* stays as it was; with no expected Host or the expected one the chain below
\* sessionMiddleware runs on the session within the transaction.
C25_HostGate ==
    [][\A r \in HostRequests :
         (Known(client, ClientTokenOf("s1")) /\ Transaction("h1", "s1", r)) =>
            IF HostMismatch(objs["s1"], r)
            THEN /\ objs'["s1"] = objs["s1"]
                 /\ resp'["h1"] = WriteError("unauthorized")
            ELSE /\ objs'["s1"] = cacheMiddleware(objs["s1"], r).s
                 /\ resp'["h1"] = cacheMiddleware(objs["s1"], r).resp]_vars

\* A fetch reached a session that expects another Host: it was refused, the
\* session is INITIALIZED still and its cache is empty.
C25_Witness ==
    /\ Known(client, ClientTokenOf("s1"))
    /\ objs["s1"].Rrequest.Host = "elsewhere"
    /\ req["h1"].kind = "fetch"
    /\ resp["h1"] = WriteError("unauthorized")
    /\ objs["s1"].Status = ServerStatusInitialized
    /\ objs["s1"].ResponseCache = EmptyCache

\* The session "s1" is in the store before and after the step, the same one.
Stays == Known(client, ClientTokenOf("s1")) /\ requestor' = requestor

\* The session "s1" goes from status a to status b in this step.
Goes(a, b) == Stays /\ objs["s1"].Status = a /\ objs'["s1"].Status = b

\* C26: PAIRING is entered only from INITIALIZED, by the client's fetch, and
\* exactly when the pairing method is not none then; a session that connected
\* without pairing is never INITIALIZED or PAIRING afterwards; PAIRING is left
\* for CONNECTED only by pairingCompleted, which in any other status returns
\* an error and leaves the session as it is.
C26_PairingOnlyWhenEnabled ==
    [][/\ \A a \in AllStatuses \ {ServerStatusPairing} :
            (Goes(a, ServerStatusPairing) =>
               (/\ a = ServerStatusInitialized
                /\ req'["h1"].kind = "fetch"
                /\ objs["s1"].Options.PairingMethod # PairingMethodNone))
       /\ (Goes(ServerStatusInitialized, ServerStatusConnected) =>
               (/\ req'["h1"].kind = "fetch"
                /\ objs["s1"].Options.PairingMethod = PairingMethodNone))
       /\ \A a \in AllStatuses \ {ServerStatusInitialized} :
            ~Goes(a, ServerStatusInitialized)
       /\ (Goes(ServerStatusPairing, ServerStatusConnected) =>
               (/\ req'["h1"].kind = "pairingcompleted"
                /\ req'["h1"].auth = objs["s1"].FrontendAuth
                /\ ButCache(objs'["s1"]) = ButCache(pairingCompleted(objs["s1"]).s)))
       /\ ((Stays /\ objs["s1"].Status # ServerStatusPairing) =>
               (/\ pairingCompleted(objs["s1"]).err
                /\ pairingCompleted(objs["s1"]).s = objs["s1"]))]_vars

\* The frontend completed the pairing of a session with pairing method pin,
\* which is CONNECTED now.
C26_Witness ==
    /\ Known(client, ClientTokenOf("s1"))
    /\ objs["s1"].Options.PairingMethod = PairingMethodPin
    /\ objs["s1"].Status = ServerStatusConnected
    /\ req["h1"] = PairingCompletedRequest(FrontendAuthOf("s1"))
    /\ resp["h1"].status = 200

\* The answer to the handler carries the payload of the session request.
Delivered(h) == resp'[h].body.withRequest

\* C27: with pairing method pin the payload of the session request reaches
\* the client only once the session is CONNECTED: getClientRequest carries it
\* iff the pairing method is none, and the endpoint that returns it answers
\* with it only for a CONNECTED session and a request that carries the
\* session's ClientAuth.
C27_RequestAfterPairing ==
    [][\A r \in HostRequests :
         (Known(client, ClientTokenOf("s1")) /\ Transaction("h1", "s1", r)) =>
            /\ getClientRequest(objs["s1"]).withRequest
                  <=> objs["s1"].Options.PairingMethod = PairingMethodNone
            /\ (Delivered("h1")
                   /\ objs["s1"].Options.PairingMethod # PairingMethodNone)
                  => objs["s1"].Status = ServerStatusConnected
            /\ (r.kind = "request" /\ Delivered("h1"))
                  => /\ objs["s1"].Status = ServerStatusConnected
                     /\ r.auth = objs["s1"].ClientAuth
            /\ (r.kind = "request" /\ ~HostMismatch(objs["s1"], r)
                   /\ ~Replays(objs["s1"], r))
                  => IF /\ objs["s1"].Status = ServerStatusConnected
                        /\ r.auth = objs["s1"].ClientAuth
                     THEN Delivered("h1")
                     ELSE resp'["h1"] = WriteError(ClientGateError(objs["s1"], r))]_vars

-----------------------------------------------------------------------------
(* Claims about the result callback, checked under SpecCallback *)

\* The session "s1" is an object of the store in this step and the next.
Object == "s1" \in DOMAIN objs /\ "s1" \in DOMAIN objs'

\* The session "s1" becomes terminal in this step.
BecomesTerminal ==
    /\ Object
    /\ ~Finished(objs["s1"].Status)
    /\ Finished(objs'["s1"].Status)

\* C28: on every transition of a session to a terminal status a result
\* callback with the session's Result is sent iff the request has a
\* CallbackURL, and however the delivery went the session has the terminal
\* status and the result that was sent.
C28_CallbackOnTerminal ==
    [][BecomesTerminal =>
         /\ objs'["s1"].callbacks =
               IF objs["s1"].Rrequest.CallbackURL # ""
               THEN Append(objs["s1"].callbacks,
                           [url |-> objs["s1"].Rrequest.CallbackURL,
                            result |-> objs'["s1"].Result,
                            delivered |-> objs["s1"].Rrequest.CallbackURL = CallbackUp])
               ELSE objs["s1"].callbacks
         /\ objs'["s1"].Result.Status = objs'["s1"].Status
         /\ Len(objs'["s1"].callbacks) <= 1]_vars

\* The proofs verified, the session is DONE and its result went to a receiver
\* that could not be reached.
C28_Witness ==
    /\ "s1" \in DOMAIN objs
    /\ objs["s1"].Status = ServerStatusDone
    /\ objs["s1"].Rrequest.CallbackURL = CallbackDown
    /\ Len(objs["s1"].callbacks) = 1
    /\ ~objs["s1"].callbacks[1].delivered
    /\ objs["s1"].callbacks[1].result = objs["s1"].Result

\* C29: a result callback is sent only when the lock of the session is free,
\* the transaction that made the session terminal having released it.
C29_CallbackOutsideLock ==
    [][(Object /\ objs'["s1"].callbacks # objs["s1"].callbacks
          /\ objs'["s1"].callbacks # <<>>)
         => mutex["s1"] = Free]_vars

-----------------------------------------------------------------------------
(* Claims about passes of the sweep, checked under SpecSweeps *)

\* A second visit of the sweep at the same instant finds the session as the
\* first visit left it, and nothing to delete.
SecondVisitIdle(s) ==
    LET v == sweepVisit(s)
    IN  ~v.expired => sweepVisit(v.s) = [s |-> v.s, expired |-> FALSE]

\* A pass of the sweep has failed: it read a field of a nil session.
SweepFailed == spc = "panic"

\* C30: a second pass of the sweep with no time in between leaves every
\* session the first pass kept as the first pass left it, and two passes
\* running at once on the same store end without failure.
C30_SweepIdempotent ==
    /\ \A t \in DOMAIN requestor : SecondVisitIdle(objs[requestor[t]])
    /\ ~SweepFailed

-----------------------------------------------------------------------------
(* Claims about newSession and failing store operations, checked under
   SpecFaults *)

\* newSession puts the session "s1" into the remote store in this step.
Inserts == ~created["s1"] /\ created'["s1"]

\* C21: newSession holds the lock of the session when it inserts it, and no
\* call of newSession returns leaving the lock taken, the call whose add
\* failed included.
C21_NewSessionLock ==
    [][/\ Inserts => rlock'["s1"] = "newSession"
       /\ rlock'["s1"] # Returned]_vars

\* The keys of the session "s1" are written in this step.
WritesStore == rsession' # rsession \/ rtoken' # rtoken

\* C22: no failure of an operation of the remote store is dropped: the
\* session is inserted only by a newSession that holds its lock and modified
\* only by a holder of its lock, and a lock that cannot be obtained leaves
\* the store as it is.
C22_NoWriteWithoutLock ==
    [][WritesStore =>
         \/ Inserts /\ rlock'["s1"] = "newSession"
         \/ ~Inserts /\ rlock["s1"] \in Handlers]_vars

-----------------------------------------------------------------------------
(* Claims about what the sweep keeps, checked under SpecCache *)

\* The session "s1" leaves the store in this step.
Leaves == InStore(requestor, client) /\ ~InStore(requestor', client')

\* The session "s1" is timed out in this step.
TimesOut ==
    /\ InStore(requestor, client)
    /\ objs["s1"].Status # ServerStatusTimeout
    /\ objs'["s1"].Status = ServerStatusTimeout

\* C31: the sweep deletes terminal sessions only, and never in the pass that
\* timed the session out: that pass sets LastActive to the time of the pass,
\* and the session is found under its RequestorToken, TIMEOUT, until a pass
\* that runs more than maxSessionLifetime later.
C31_TimeoutThenDelete ==
    /\ [][/\ Leaves =>
               /\ Finished(objs["s1"].Status)
               /\ objs'["s1"] = objs["s1"]
               /\ objs["s1"].LastActive + maxSessionLifetime < now
          /\ TimesOut =>
               /\ ~Finished(objs["s1"].Status)
               /\ objs'["s1"].LastActive = now
               /\ memGet(RequestorTokenOf("s1"))' = <<"s1">>]_vars
    /\ []((/\ "s1" \in DOMAIN objs
           /\ objs["s1"].Status = ServerStatusTimeout
           /\ now <= objs["s1"].LastActive + maxSessionLifetime)
             => /\ memGet(RequestorTokenOf("s1")) = <<"s1">>
                /\ objs["s1"].Result.Status = ServerStatusTimeout)

\* The sweep timed the session out at 301 s and a pass 5 s later found it
\* still in the store, TIMEOUT.
C31_Witness ==
    /\ InStore(requestor, client)
    /\ objs["s1"].Status = ServerStatusTimeout
    /\ objs["s1"].LastActive = 301
    /\ now = 306
    /\ hist.swept

-----------------------------------------------------------------------------
(* Claim about the end of every session, checked under SpecLive *)

\* The session "s1" exists and is terminal.
Terminal == "s1" \in DOMAIN objs /\ Finished(objs["s1"].Status)

\* C32: with the sweep running again and again and time going on, a session
\* of the local store that no client or frontend request reaches any more
\* becomes terminal in the end, and a terminal session is in the end deleted
\* from both indexes.
C32_EverySessionEnds ==
    /\ InStore(requestor, client) ~> Terminal
    /\ Terminal ~> (/\ ~Known(requestor, RequestorTokenOf("s1"))
                    /\ ~Known(client, ClientTokenOf("s1")))

\* A session nobody fetched was timed out by the sweep and deleted by a
\* later pass.
C32_Witness ==
    /\ Terminal
    /\ objs["s1"].Status = ServerStatusTimeout
    /\ objs["s1"].Version = NoVersion
    /\ ~Known(requestor, RequestorTokenOf("s1"))
    /\ ~Known(client, ClientTokenOf("s1"))
    /\ hist.swept

-----------------------------------------------------------------------------
(* Claim about the frontend options, checked under SpecOptions *)

\* The options the claim says a call with method m and fresh code c leaves.
ClaimedOptions(s, m, c) ==
    IF s.Status # ServerStatusInitialized THEN s.Options
    ELSE IF m = PairingMethodNone THEN [PairingMethod |-> m, PairingCode |-> ""]
    ELSE IF m = PairingMethodPin THEN [PairingMethod |-> m, PairingCode |-> c]
    ELSE s.Options

\* The calls the claim says return an error.
ClaimedError(s, m) ==
    \/ s.Status # ServerStatusInitialized
    \/ m \notin {"", PairingMethodNone, PairingMethodPin}

\* C33: updateFrontendOptions changes the pairing options of an INITIALIZED
\* session only; in any other status and for an unknown method it returns an
\* error and leaves the options; no method given returns the options as they
\* are; pin sets a new pairing code, none clears the code.
C33_OptionsOnlyInitialized ==
    [][\A r \in OptionsRequests :
         (r.kind = "options" /\ Executes(r)) =>
            LET s == objs["s1"]
                u == updateFrontendOptions(s, r.message, r.random)
            IN  /\ u.err <=> ClaimedError(s, r.message)
                /\ u.s = [s EXCEPT !.Options = ClaimedOptions(s, r.message, r.random)]
                /\ ButCache(objs'["s1"]) = ButCache(u.s)
                /\ IF u.err
                   THEN /\ resp'["h1"].status # 200
                        /\ objs'["s1"].Options = s.Options
                   ELSE resp'["h1"].body.options = objs'["s1"].Options]_vars

\* The frontend asked for pairing by pin once the session was CONNECTED
\* without pairing: it got an error and the options are as they were.
C33_Witness ==
    /\ Known(client, ClientTokenOf("s1"))
    /\ objs["s1"].Status = ServerStatusConnected
    /\ req["h1"] = OptionsRequest(PairingMethodPin, FrontendAuthOf("s1"), "pairingCode-1")
    /\ resp["h1"] = WriteError("unexpectedRequest")
    /\ objs["s1"].Options = [PairingMethod |-> PairingMethodNone, PairingCode |-> ""]

-----------------------------------------------------------------------------
(* Claim about the number of result callbacks, checked under SpecOnce *)

\* The session "s1" as the remote store holds it.
StoredOnce == rsession[ClientTokenOf("s1")].val

\* C34: at most one result callback is sent for a session, whatever the
\* operations: reads of an expired session that is not terminal from the
\* remote store send one callback between them, and fail on a session that
\* is terminal already sends none.
C34_CallbackAtMostOnce ==
    /\ hist.sent <= 1
    /\ (Live(rsession, ClientTokenOf("s1")) /\ Finished(StoredOnce.Status))
          => fail(StoredOnce, "internal").callbacks = StoredOnce.callbacks

-----------------------------------------------------------------------------
(* Claim about the result kept inside a session, checked under SpecCallback *)

\* The result of s mirrors s.
Mirrors(s) ==
    /\ s.Result.Status = s.Status
    /\ s.Result.Token = s.RequestorToken
    /\ s.Result.Type = s.Action

\* C35: in every reachable state every stored session has Result.Status equal
\* to Status, Result.Token equal to RequestorToken and Result.Type equal to
\* Action, and setStatus and fail applied to it keep that.
C35_ResultMirrorsSession ==
    \A id \in DOMAIN objs :
        /\ Mirrors(objs[id])
        /\ Mirrors(fail(objs[id], "internal"))
        /\ \A status \in {ServerStatusConnected, ServerStatusPairing,
                          ServerStatusDone, ServerStatusTimeout} :
              Mirrors(setStatus(objs[id], status))

\* Reached: a session that fail has cancelled after newSession built it.
C35_Witness ==
    /\ "s1" \in DOMAIN objs
    /\ objs["s1"].Status = ServerStatusCancelled
    /\ objs["s1"].Result.Err = "protocolVersionNotSupported"
    /\ objs["s1"].Result.Token = RequestorTokenOf("s1")

-----------------------------------------------------------------------------
(* Claims about the replay of cached responses, checked under SpecHost *)

\* The endpoints behind pairingMiddleware.
BehindClientGate(r) == r.kind \in {"proofs", "request"}

\* The cache holds the answer a handler behind the gate gave to a request
\* that passed the gate, and checkCache hands it out for r.
ReplaysAuthorized(s, r) ==
    /\ BehindClientGate(r)
    /\ ~HostMismatch(s, r)
    /\ Replays(s, r)
    /\ s.ResponseCache.Status = 200

\* C36: the cached response of a handler behind the client-auth gate is
\* replayed only to a request whose Authorization equals the session's
\* ClientAuth.
C36_ReplayOnlyToAuthorized ==
    [][\A r \in HostRequests :
         (/\ Known(client, ClientTokenOf("s1"))
          /\ Transaction("h1", "s1", r)
          /\ ReplaysAuthorized(objs["s1"], r))
            => r.auth = objs["s1"].ClientAuth]_vars

\* C37: checkCache replays a cached response only when the body of the
\* request is not empty: no request with an empty body is answered from the
\* cache, whatever the cache holds.
C37_NoReplayOfEmptyBody ==
    [][\A r \in HostRequests :
         (/\ Known(client, ClientTokenOf("s1"))
          /\ Transaction("h1", "s1", r)
          /\ ~HostMismatch(objs["s1"], r)
          /\ Replays(objs["s1"], r))
            => r.message # ""]_vars

-----------------------------------------------------------------------------
(* Claim about getRequest, checked under SpecRequest *)

\* The request at address i with its credentials by value.
Deref(mem, i) ==
    [issuing     |-> mem[i].issuing,
     Credentials |-> [k \in 1..Len(mem[i].Credentials) |-> mem[mem[i].Credentials[k]]]]

\* What the claim says of the credential returned for the stored one.
Stripped(cred) ==
    [cred EXCEPT !.RevocationSupported = cred.RevocationKey # "",
                 !.RevocationKey = ""]

\* C38: for an issuance session the request getRequest returns has, credential
\* by credential, an empty RevocationKey and RevocationSupported true exactly
\* where the stored RevocationKey is not empty, and every call leaves the
\* stored request as it was; for another session the stored request itself is
\* returned.
C38_GetRequestStripsCopy ==
    [][GetRequest =>
         LET before == Deref(heap, stored)
             got == Deref(heap', returned'[Len(returned')])
         IN  /\ Deref(heap', stored') = before
             /\ IF before.issuing
                THEN /\ returned'[Len(returned')] # stored
                     /\ got.issuing
                     /\ Len(got.Credentials) = Len(before.Credentials)
                     /\ \A k \in 1..Len(before.Credentials) :
                           got.Credentials[k] = Stripped(before.Credentials[k])
                ELSE returned'[Len(returned')] = stored]_vars

\* Reached: two calls on an issuance request whose first credential has a key
\* and whose second has none but was marked as supporting revocation; the
\* stored keys are still there and the second answer is stripped.
C38_Witness ==
    /\ Len(returned) = 2
    /\ Len(Deref(heap, stored).Credentials) = 2
    /\ Deref(heap, stored).Credentials[1].RevocationKey = "key1"
    /\ Deref(heap, stored).Credentials[2].RevocationKey = ""
    /\ Deref(heap, stored).Credentials[2].RevocationSupported
    /\ Deref(heap, returned[2]).Credentials[1].RevocationKey = ""
    /\ Deref(heap, returned[2]).Credentials[1].RevocationSupported
    /\ ~Deref(heap, returned[2]).Credentials[2].RevocationSupported

=============================================================================
